---- MODULE Spec2Model ----
(***************************************************************************)
(* Model of the GitHub repository fetch pipeline of github-repo-upvotes.   *)
(*                                                                         *)
(* Two builds of the API module exist in the repository:                   *)
(*   "interleaved" : src/src/github-api.ts   (one combined paged query)    *)
(*   "countFirst"  : src/unnamed/part_000    (count query, then one        *)
(*                   sequential paging loop per kind, both running         *)
(*                   concurrently under Promise.all)                       *)
(* One behaviour of the model is one call of fetchRepositoryData in one of *)
(* the two builds, against a GitHub server that answers every request      *)
(* either from its item lists or with a failure.                           *)
(***************************************************************************)
EXTENDS Integers, Sequences, FiniteSets, TLC

(***************************************************************************)
(* Bounds of the model and constants of the program.                       *)
(***************************************************************************)
\* Largest number of pages of issues the server holds at the start.
MaxPages == 3
\* Number of items created on the server while a fetch is running.
MaxDrift == 1
\* Largest number of reaction groups of a raw node handed to the aggregator.
MaxGroups == 2
\* The longest list handed to sortByReactions.
MaxItems == 3
\* The longest repository input handed to handleLoad.
MaxInput == 4
\* The number of calls of fetchRepositoryData handleLoad makes.
MaxLoads == 2
\* The onProgress invocations among which one may throw.
MaxCalls == 2
\* `first: 100` of the paged queries, `pageSize` of the count-first loops.
PageSize == 100
\* JavaScript null / an omitted value of a cursor.
Null == 0
\* JavaScript undefined for a numeric field (a totalCount the body lacks).
Undefined == -1

Variants == {"interleaved", "countFirst"}
Kinds == {"issues", "pullRequests"}
LoadStateFilters == {"open", "closed", "all"}
StateFilters == {"all", "open", "closed", "merged"}
TabTypes == {"issues", "pullRequests"}

Min(a, b) == IF a < b THEN a ELSE b
Max(a, b) == IF a > b THEN a ELSE b

VARIABLES
  variant,      \* which build of the API module runs
  stateFilter,  \* the load-state filter argument of the call
  server,       \* [kind -> number of items the server holds under the filter]
  drift,        \* number of items created on the server since the call
  pc,           \* "idle", "counting", "paging", "done"
  inflight,     \* set of requests sent and not yet answered
  all,          \* all["issues"] is allIssues, all["pullRequests"] is allPRs
  cursor,       \* issuesCursor / prsCursor (the loops' `cursor`)
  hasMore,      \* hasMoreIssues / hasMorePRs (interleaved build)
  page,         \* the loop counter `page` of each count-first loop
  numPages,     \* `numPages` of each count-first loop
  result,       \* issuesResult / prsResult: what each count-first loop returned
  outcome,      \* what fetchRepositoryData returned (or threw)
  progress,     \* the arguments of every onProgress invocation, in order
  log,          \* every request answered so far with its answer, in order
  rawNode,      \* the argument of a call of calculateReactionCounts
  summary,      \* what that call returned
  token,        \* the `token` argument of the call of fetchRepositoryData
  erratic,      \* whether the server may answer a page request with an odd page
  throwAt,      \* which invocation of onProgress throws (0: none does)
  items,        \* the list argument of a call of a list utility
  sorted,       \* what sortByReactions(items) returned
  filter,       \* the filter argument of a call of a display filter
  filtered,     \* what filterIssues / filterPullRequests (items, filter) returned
  state,        \* the application state (AppState)
  view,         \* the document: inputs, button, panels
  storage,      \* localStorage: the token and the last repository
  loads,        \* the calls of fetchRepositoryData made by handleLoad
  calls         \* what the last handler called, in order

vars == <<variant, stateFilter, server, drift, pc, inflight, all, cursor,
          hasMore, page, numPages, result, outcome, progress, log,
          rawNode, summary, token, erratic, throwAt, items, sorted, filter,
          filtered, state, view, storage, loads, calls>>

\* The variables of a call of the API module and of the aggregator.
apiVars == <<variant, stateFilter, server, drift, pc, inflight, all, cursor,
             hasMore, page, numPages, result, outcome, progress, log,
             rawNode, summary, token, erratic, throwAt>>

\* The variables of the UI controller.
uiVars == <<state, view, storage, loads, calls>>

\* The variables of the utilities (src/unnamed/part_002).
utilVars == <<items, sorted, filter, filtered>>

(***************************************************************************)
(* The reaction aggregator.                                                *)
(***************************************************************************)
\* The positive cases without `case 'LAUGH'`.
PositiveContents_NoLaugh == {"THUMBS_UP", "HEART", "HOORAY", "ROCKET", "EYES"}

\* The cases of the `switch` that add to positiveCount.
PositiveContents == {"THUMBS_UP", "HEART", "HOORAY", "ROCKET", "EYES", "LAUGH"}

\* The cases of the `switch` that add to negativeCount.
NegativeContents == {"THUMBS_DOWN", "CONFUSED"}

\* A reaction group as the API reports it: {content, users: {totalCount}}.
ReactionGroup(content, count) == [content |-> content, users |-> [totalCount |-> count]]

RECURSIVE SumGroups(_, _)
\* The sum of users.totalCount over the groups whose content is in `contents`:
\* the `for` loop with its `switch`.
SumGroups(groups, contents) ==
  IF groups = <<>> THEN 0
  ELSE (IF Head(groups).content \in contents THEN Head(groups).users.totalCount ELSE 0)
       + SumGroups(Tail(groups), contents)

\* The reactionGroups field of a raw node: a list, or absent (undefined).
Groups(list) == [present |-> TRUE, list |-> list]
AbsentGroups == [present |-> FALSE, list |-> <<>>]

\* `node.reactionGroups || []`.
OrEmpty(groups) == IF groups.present THEN groups.list ELSE <<>>

\* calculateReactionCounts(node).
calculateReactionCounts(node) ==
  [totalCount    |-> node.reactions.totalCount,
   positiveCount |-> SumGroups(OrEmpty(node.reactionGroups), PositiveContents),
   negativeCount |-> SumGroups(OrEmpty(node.reactionGroups), NegativeContents)]

\* The object each node is mapped to before it is appended (title, url and
\* createdAt are copied like number and state and are left out).
Transform(node) ==
  [number |-> node.number, state |-> node.state,
   reactions |-> calculateReactionCounts(node)]

\* The page's nodes mapped and listed in the opposite order.
TransformAll_Reversed(nodes) ==
  [i \in 1..Len(nodes) |-> Transform(nodes[Len(nodes) - i + 1])]

\* `nodes.map(...)`: the page's nodes mapped, in the page's order.
TransformAll(nodes) == [i \in 1..Len(nodes) |-> Transform(nodes[i])]

(***************************************************************************)
(* The query builders: the states each query asks for.                     *)
(***************************************************************************)
\* buildQuery (interleaved build): the `switch` with `case 'all': default:`.
buildQuery(f) ==
  IF f = "open" THEN [issueStates |-> {"OPEN"}, prStates |-> {"OPEN"}]
  ELSE IF f = "closed" THEN [issueStates |-> {"CLOSED"}, prStates |-> {"CLOSED", "MERGED"}]
  ELSE [issueStates |-> {"OPEN", "CLOSED"}, prStates |-> {"OPEN", "CLOSED", "MERGED"}]

\* A count query that leaves merged pull requests out of the closed ones.
buildCountQuery_ClosedOnly(f) ==
  [issueStates |-> IF f = "open" THEN {"OPEN"}
                   ELSE IF f = "closed" THEN {"CLOSED"} ELSE {"OPEN", "CLOSED"},
   prStates    |-> IF f = "open" THEN {"OPEN"}
                   ELSE IF f = "closed" THEN {"CLOSED"}
                   ELSE {"OPEN", "CLOSED", "MERGED"}]

\* buildCountQuery (count-first build): two conditional expressions.
buildCountQuery(f) ==
  [issueStates |-> IF f = "open" THEN {"OPEN"}
                   ELSE IF f = "closed" THEN {"CLOSED"} ELSE {"OPEN", "CLOSED"},
   prStates    |-> IF f = "open" THEN {"OPEN"}
                   ELSE IF f = "closed" THEN {"CLOSED", "MERGED"}
                   ELSE {"OPEN", "CLOSED", "MERGED"}]

\* buildIssuesQuery: asks for issues only.
buildIssuesQuery(f) ==
  [issueStates |-> IF f = "open" THEN {"OPEN"}
                   ELSE IF f = "closed" THEN {"CLOSED"} ELSE {"OPEN", "CLOSED"},
   prStates    |-> {}]

\* buildPullRequestsQuery: asks for pull requests only.
buildPullRequestsQuery(f) ==
  [issueStates |-> {},
   prStates    |-> IF f = "open" THEN {"OPEN"}
                   ELSE IF f = "closed" THEN {"CLOSED", "MERGED"}
                   ELSE {"OPEN", "CLOSED", "MERGED"}]

\* The optional `token` argument: not given (undefined), or a string.
NoToken == [given |-> FALSE, value |-> ""]
Token(value) == [given |-> TRUE, value |-> value]

\* `if (token)`: a token that was given and is not the empty string.
Truthy(t) == t.given /\ t.value # ""

GITHUB_API_URL == "https://api.github.com/graphql"

\* Headers without the Authorization entry, whatever the token.
Headers_Anonymous(t) == [h \in {"Content-Type"} |-> "application/json"]

\* The headers of a request: Content-Type, and Authorization when the token
\* is truthy.
Headers(t) ==
  [h \in {"Content-Type"} \cup (IF Truthy(t) THEN {"Authorization"} ELSE {}) |->
     IF h = "Content-Type" THEN "application/json" ELSE "Bearer " \o t.value]

\* A request as makeGraphQLRequest posts it: the endpoint, the method, the
\* headers, and the body's query (which query, the states it asks for) and
\* cursor variables (a variable that is not set is not in the domain of
\* `variables`; owner and name are always set).
Request(name, query, variables) ==
  [url |-> GITHUB_API_URL, method |-> "POST", headers |-> Headers(token),
   name |-> name, states |-> query, variables |-> variables]

\* The value of a cursor variable of a request, Null when it is omitted.
CursorOf(req, v) ==
  IF v \in DOMAIN req.variables THEN req.variables[v] ELSE Null

(***************************************************************************)
(* The GitHub server, as the client sees it.  The repository holds, of     *)
(* each kind, items numbered 1, 2, ... in the order of their creation; the *)
(* oldest are MERGED (pull requests only), the next CLOSED, the newest     *)
(* OPEN, and server[k][s] is the number of items of kind k in state s.  A  *)
(* connection lists the items of the requested states newest first         *)
(* (orderBy CREATED_AT DESC), a cursor is the number of the last item of a *)
(* page, and `after: c` serves the items older than c.                     *)
(***************************************************************************)
ItemStates == {"MERGED", "CLOSED", "OPEN"}

\* The number of items of kind k older than the items in state s.
Older(srv, k, s) ==
  IF s = "MERGED" THEN 0
  ELSE IF s = "CLOSED" THEN srv[k]["MERGED"]
  ELSE srv[k]["MERGED"] + srv[k]["CLOSED"]

\* The state of item n of kind k.
NodeState(srv, k, n) ==
  IF n <= srv[k]["MERGED"] THEN "MERGED"
  ELSE IF n <= srv[k]["MERGED"] + srv[k]["CLOSED"] THEN "CLOSED"
  ELSE "OPEN"

\* The numbers of the oldest and of the newest item of kind k whose state is
\* among `states` (the queries ask for states that are neighbours in age, so
\* the items served are the numbers from the one to the other); newest 0 and
\* oldest 1 when there is none.
Newest(srv, k, states) ==
  LET held == {s \in states : srv[k][s] > 0}
  IN  IF held = {} THEN 0
      ELSE IF "OPEN" \in held THEN Older(srv, k, "OPEN") + srv[k]["OPEN"]
      ELSE IF "CLOSED" \in held THEN Older(srv, k, "CLOSED") + srv[k]["CLOSED"]
      ELSE srv[k]["MERGED"]

Oldest(srv, k, states) ==
  LET held == {s \in states : srv[k][s] > 0}
  IN  IF held = {} THEN 1
      ELSE IF "MERGED" \in held THEN 1
      ELSE IF "CLOSED" \in held THEN Older(srv, k, "CLOSED") + 1
      ELSE Older(srv, k, "OPEN") + 1

\* The number of items of kind k the server holds under `states`.
Total(srv, k, states) == Newest(srv, k, states) - Oldest(srv, k, states) + 1

\* The reaction groups the server reports for item n.
NodeGroups(n) ==
  IF n % 4 = 0 THEN <<>>
  ELSE IF n % 4 = 1 THEN <<ReactionGroup("THUMBS_UP", 2), ReactionGroup("CONFUSED", 1)>>
  ELSE IF n % 4 = 2 THEN <<ReactionGroup("HEART", 1), ReactionGroup("THUMBS_DOWN", 3)>>
  ELSE <<ReactionGroup("ROCKET", 1)>>

\* The raw node of item n of kind k, with the fields the queries select.
RawNode(srv, k, n) ==
  [number |-> n, state |-> NodeState(srv, k, n),
   reactions |-> [totalCount |-> SumGroups(NodeGroups(n), PositiveContents \cup NegativeContents)],
   reactionGroups |-> Groups(NodeGroups(n))]

\* A connection of a response body: IssuesConnection / PullRequestsConnection,
\* and the {totalCount} object of the count query.  present = FALSE is a body
\* whose repository object has no such field.
Connection(totalCount, nodes, hasNextPage, endCursor) ==
  [present |-> TRUE, totalCount |-> totalCount, nodes |-> nodes,
   pageInfo |-> [hasNextPage |-> hasNextPage, endCursor |-> endCursor]]

AbsentConnection ==
  [present |-> FALSE, totalCount |-> Undefined, nodes |-> <<>>,
   pageInfo |-> [hasNextPage |-> FALSE, endCursor |-> Null]]

\* The page of kind k after cursor c (Null: from the start) under `states`:
\* `first: 100, after: $cursor, states: ...`.
ServerPage(srv, k, c, states) ==
  LET newest == Newest(srv, k, states)
      oldest == Oldest(srv, k, states)
      hi     == IF c = Null THEN newest ELSE Min(c - 1, newest)
      count  == Max(0, Min(PageSize, hi - oldest + 1))
      lo     == hi - count + 1
  IN  Connection(Undefined,
                 [i \in 1..count |-> RawNode(srv, k, hi - i + 1)],
                 count > 0 /\ lo > oldest,
                 IF count > 0 THEN lo ELSE Null)

\* The {totalCount} connection of the count query.
ServerCount(srv, k, states) == Connection(Total(srv, k, states), <<>>, FALSE, Null)

\* An entry of a GraphQL `errors` array: {message, type?}.
ErrorEntry(type, message) == [type |-> type, message |-> message]

\* The error entries the server may send.
ErrorEntries ==
  {ErrorEntry("NOT_FOUND", "Could not resolve to a Repository"),
   ErrorEntry("FORBIDDEN", "Something went wrong"),
   ErrorEntry("FORBIDDEN", "NETWORK")}

\* The `errors` arrays the server may send: one entry, or two entries of
\* different types in either order.
ErrorArrays ==
  {<<e>> : e \in ErrorEntries}
  \cup {<<p[1], p[2]>> : p \in {q \in ErrorEntries \X ErrorEntries : q[1].type # q[2].type}}

\* HTTP statuses of the responses; 0 stands for no response at all (fetch()
\* rejects).  response.ok is true of 200..299.
Statuses == {200, 401, 403, 500}
Ok(status) == 200 <= status /\ status <= 299

\* What the network exchange of one request produced: the status, whether
\* the body parses as JSON, the message of the runtime's own exception when
\* the exchange or the parse fails, and the parsed body {data?, errors?}.
Response(status, parsable, message, errors, repository, issues, pullRequests) ==
  [status |-> status, parsable |-> parsable, message |-> message,
   body |-> [errors |-> errors, repository |-> repository,
             issues |-> issues, pullRequests |-> pullRequests]]

\* A 2xx response with a parsable body carrying data.repository.
DataResponse(issues, pullRequests) ==
  Response(200, TRUE, "", <<>>, TRUE, issues, pullRequests)

\* The responses that carry no usable data, whatever was asked.
FailureResponses ==
  {Response(s, TRUE, "", <<>>, FALSE, AbsentConnection, AbsentConnection) :
     s \in Statuses \ {200}}
  \cup {Response(0, FALSE, "Failed to fetch", <<>>, FALSE, AbsentConnection, AbsentConnection)}
  \cup {Response(200, FALSE, "Unexpected token < in JSON at position 0", <<>>, FALSE,
                 AbsentConnection, AbsentConnection)}
  \cup {Response(200, TRUE, "", errs, FALSE, AbsentConnection, AbsentConnection) :
          errs \in ErrorArrays}
  \cup {Response(200, TRUE, "", <<>>, FALSE, AbsentConnection, AbsentConnection)}

\* The well-formed answer of the server to request req.
HonestResponse(req) ==
  IF req.name = "count"
    THEN DataResponse(ServerCount(server, "issues", req.states.issueStates),
                      ServerCount(server, "pullRequests", req.states.prStates))
  ELSE IF req.name = "combined"
    THEN DataResponse(
           ServerPage(server, "issues", CursorOf(req, "issuesCursor"), req.states.issueStates),
           ServerPage(server, "pullRequests", CursorOf(req, "prsCursor"), req.states.prStates))
  ELSE IF req.name = "issues"
    THEN DataResponse(
           ServerPage(server, "issues", CursorOf(req, "cursor"), req.states.issueStates),
           AbsentConnection)
  ELSE DataResponse(
           AbsentConnection,
           ServerPage(server, "pullRequests", CursorOf(req, "cursor"), req.states.prStates))

\* The same body with one field of a connection it should carry missing.
MalformedResponses(req) ==
  LET h == HonestResponse(req)
  IN  (IF req.name \in {"count", "combined", "issues"}
         THEN {[h EXCEPT !.body.issues = AbsentConnection]} ELSE {})
      \cup
      (IF req.name \in {"count", "combined", "pullRequests"}
         THEN {[h EXCEPT !.body.pullRequests = AbsentConnection]} ELSE {})
      \cup
      (IF req.name = "count"
         THEN {[h EXCEPT !.body.issues.totalCount = Undefined]} ELSE {})

\* The pages of kind k an erratic server may send instead of the one asked
\* for by req: the same page flagged as having a next page, an empty page
\* with either flag, and (to a loop of the count-first build) the same page
\* flagged as having a next page but without an end cursor.
ErraticPages(req, k) ==
  LET h == HonestResponse(req)
      c == IF k = "issues" THEN h.body.issues ELSE h.body.pullRequests
  IN  {[c EXCEPT !.pageInfo.hasNextPage = TRUE]}
      \cup {Connection(Undefined, <<>>, flag, Null) : flag \in BOOLEAN}
      \cup (IF req.name = k
             THEN {[c EXCEPT !.pageInfo.hasNextPage = TRUE, !.pageInfo.endCursor = Null]}
             ELSE {})

\* The answers to a page request with an odd page of one kind in them.
ErraticResponses(req) ==
  LET h == HonestResponse(req)
  IN  (IF req.name \in {"combined", "issues"}
         THEN {[h EXCEPT !.body.issues = c] : c \in ErraticPages(req, "issues")} ELSE {})
      \cup
      (IF req.name \in {"combined", "pullRequests"}
         THEN {[h EXCEPT !.body.pullRequests = c] : c \in ErraticPages(req, "pullRequests")}
         ELSE {})

\* Every answer the exchange of request req may produce.
ServerResponses(req) ==
  {HonestResponse(req)} \cup MalformedResponses(req) \cup FailureResponses
  \cup (IF erratic THEN ErraticResponses(req) ELSE {})

\* What the log keeps of an answer: the response without its node lists.
Digest(resp) ==
  LET d(c) == [present |-> c.present, totalCount |-> c.totalCount,
               count |-> Len(c.nodes), pageInfo |-> c.pageInfo]
  IN  [status |-> resp.status, parsable |-> resp.parsable, errors |-> resp.body.errors,
       repository |-> resp.body.repository,
       issues |-> d(resp.body.issues), pullRequests |-> d(resp.body.pullRequests)]

(***************************************************************************)
(* The transport client and the error mapping.                             *)
(***************************************************************************)
\* An APIError {message, type}; NoError stands for an absent error field.
APIError(type, message) == [type |-> type, message |-> message]
NoError == APIError("NONE", "")

\* A FetchResult as fetchRepositoryData hands it to its caller.  status is
\* "pending" while the call runs, "returned" once its promise is fulfilled
\* and "thrown" if the promise is rejected.
FetchResult(status, issues, pullRequests, error) ==
  [status |-> status, issues |-> issues, pullRequests |-> pullRequests, error |-> error]

Pending == FetchResult("pending", <<>>, <<>>, NoError)
Failure(error) == FetchResult("returned", <<>>, <<>>, error)

\* A thrown value: isError is `instanceof Error`.
Exception(message) == [isError |-> TRUE, message |-> message]
NoException == [isError |-> FALSE, message |-> ""]

\* The message of the TypeError of reading a property of undefined.
TypeErrorMessage == "Cannot read properties of undefined"

\* What a failing onProgress throws, and whether its next invocation is the
\* one that fails.
CallbackError == Exception("onProgress failed")
CallbackThrows == throwAt = Len(progress) + 1

\* makeGraphQLRequest without its test for status 401.
makeGraphQLRequest_No401(resp) ==
  IF resp.status = 0
    THEN [thrown |-> TRUE, exception |-> Exception(resp.message), value |-> resp.body]
  ELSE IF ~Ok(resp.status)
    THEN [thrown |-> TRUE,
          exception |-> Exception(IF resp.status = 403 THEN "RATE_LIMIT" ELSE "NETWORK"),
          value |-> resp.body]
  ELSE IF ~resp.parsable
    THEN [thrown |-> TRUE, exception |-> Exception(resp.message), value |-> resp.body]
  ELSE [thrown |-> FALSE, exception |-> NoException, value |-> resp.body]

\* makeGraphQLRequest: the awaited exchange either throws or yields the body.
makeGraphQLRequest(resp) ==
  IF resp.status = 0
    THEN [thrown |-> TRUE, exception |-> Exception(resp.message), value |-> resp.body]
  ELSE IF ~Ok(resp.status)
    THEN [thrown |-> TRUE,
          exception |-> Exception(IF resp.status = 401 THEN "UNAUTHORIZED"
                                  ELSE IF resp.status = 403 THEN "RATE_LIMIT"
                                  ELSE "NETWORK"),
          value |-> resp.body]
  ELSE IF ~resp.parsable
    THEN [thrown |-> TRUE, exception |-> Exception(resp.message), value |-> resp.body]
  ELSE [thrown |-> FALSE, exception |-> NoException, value |-> resp.body]

\* handleFetchError (count-first build): {data: [], error}.
handleFetchError(e) ==
  IF e.isError
    THEN IF e.message = "UNAUTHORIZED"
           THEN APIError("UNAUTHORIZED",
                         "Invalid GitHub token. Please check your token and try again.")
         ELSE IF e.message = "RATE_LIMIT"
           THEN APIError("RATE_LIMIT",
                         "GitHub API rate limit exceeded. Please try again later or use a token.")
         ELSE IF e.message = "NETWORK"
           THEN APIError("NETWORK",
                         "Network error. Please check your connection and try again.")
         ELSE APIError("UNKNOWN", e.message)
    ELSE APIError("UNKNOWN", "An unknown error occurred.")

\* A catch block that maps the three transport messages and throws every
\* other exception on.
InterleavedCatch_Rethrows(e) ==
  IF e.isError /\ e.message = "UNAUTHORIZED"
    THEN Failure(APIError("UNAUTHORIZED",
                          "Invalid GitHub token. Please check your token and try again."))
  ELSE IF e.isError /\ e.message = "RATE_LIMIT"
    THEN Failure(APIError("RATE_LIMIT",
                          "GitHub API rate limit exceeded. Please try again later or use a token."))
  ELSE IF e.isError /\ e.message = "NETWORK"
    THEN Failure(APIError("NETWORK",
                          "Network error. Please check your connection and try again."))
  ELSE FetchResult("thrown", <<>>, <<>>, APIError("UNKNOWN", e.message))

\* The catch block of the interleaved build's fetchAllPages.
InterleavedCatch(e) ==
  IF e.isError
    THEN IF e.message = "UNAUTHORIZED"
           THEN Failure(APIError("UNAUTHORIZED",
                         "Invalid GitHub token. Please check your token and try again."))
         ELSE IF e.message = "RATE_LIMIT"
           THEN Failure(APIError("RATE_LIMIT",
                         "GitHub API rate limit exceeded. Please try again later or use a token."))
         ELSE IF e.message = "NETWORK"
           THEN Failure(APIError("NETWORK",
                         "Network error. Please check your connection and try again."))
         ELSE Failure(APIError("UNKNOWN", e.message))
    ELSE Failure(APIError("UNKNOWN", "An unknown error occurred."))

\* The two NOT_FOUND results of the `errors` check and of the repository check.
NotFoundByError ==
  Failure(APIError("NOT_FOUND", "Repository not found. Please check the owner/repo format."))
NotFoundByData ==
  Failure(APIError("NOT_FOUND", "Repository not found or is private."))

(***************************************************************************)
(* The interleaved build (src/src/github-api.ts).                          *)
(***************************************************************************)
\* Variables that carry every cursor that was ever set, whether or not the
\* stream has more pages.
InterleavedVariables_KeepsCursors(cur, more) ==
  LET dom == (IF cur["issues"] # Null THEN {"issuesCursor"} ELSE {})
             \cup
             (IF cur["pullRequests"] # Null THEN {"prsCursor"} ELSE {})
  IN  [v \in dom |-> IF v = "issuesCursor" THEN cur["issues"] ELSE cur["pullRequests"]]

\* The `variables` of the next combined request: a cursor variable is set
\* only for a stream that has more pages and whose cursor is truthy.
InterleavedVariables(cur, more) ==
  LET dom == (IF more["issues"] /\ cur["issues"] # Null THEN {"issuesCursor"} ELSE {})
             \cup
             (IF more["pullRequests"] /\ cur["pullRequests"] # Null THEN {"prsCursor"} ELSE {})
  IN  [v \in dom |-> IF v = "issuesCursor" THEN cur["issues"] ELSE cur["pullRequests"]]

InterleavedRequest(cur, more) ==
  Request("combined", buildQuery(stateFilter), InterleavedVariables(cur, more))

\* A stream that believes the next-page flag of an empty page.
InterleavedStream_EmptyFollowsFlag(k, conn) ==
  IF hasMore[k] /\ ~conn.present
    THEN [thrown |-> TRUE, all |-> all[k], hasMore |-> hasMore[k], cursor |-> cursor[k]]
  ELSE IF hasMore[k]
    THEN [thrown |-> FALSE,
          all |-> all[k] \o TransformAll(conn.nodes),
          hasMore |-> conn.pageInfo.hasNextPage,
          cursor |-> IF Len(conn.nodes) > 0 THEN conn.pageInfo.endCursor ELSE cursor[k]]
  ELSE [thrown |-> FALSE, all |-> all[k], hasMore |-> FALSE, cursor |-> cursor[k]]

\* A stream that goes on appending the nodes it is sent after it has finished.
InterleavedStream_AppendsWhenFinished(k, conn) ==
  IF hasMore[k] /\ ~conn.present
    THEN [thrown |-> TRUE, all |-> all[k], hasMore |-> hasMore[k], cursor |-> cursor[k]]
  ELSE IF hasMore[k] /\ Len(conn.nodes) > 0
    THEN [thrown |-> FALSE,
          all |-> all[k] \o TransformAll(conn.nodes),
          hasMore |-> conn.pageInfo.hasNextPage,
          cursor |-> conn.pageInfo.endCursor]
  ELSE [thrown |-> FALSE,
        all |-> IF conn.present THEN all[k] \o TransformAll(conn.nodes) ELSE all[k],
        hasMore |-> FALSE,
        cursor |-> cursor[k]]

\* A stream that stays open when its page is empty or not wanted.
InterleavedStream_StaysOpen(k, conn) ==
  IF hasMore[k] /\ ~conn.present
    THEN [thrown |-> TRUE, all |-> all[k], hasMore |-> hasMore[k], cursor |-> cursor[k]]
  ELSE IF hasMore[k] /\ Len(conn.nodes) > 0
    THEN [thrown |-> FALSE,
          all |-> all[k] \o TransformAll(conn.nodes),
          hasMore |-> conn.pageInfo.hasNextPage,
          cursor |-> conn.pageInfo.endCursor]
  ELSE [thrown |-> FALSE, all |-> all[k], hasMore |-> hasMore[k], cursor |-> cursor[k]]

\* One stream's part of an iteration: `if (hasMore && nodes.length > 0)`
\* appends the transformed nodes and takes over the page info, else the
\* stream is finished.  Reading .nodes of a missing connection throws.
InterleavedStream(k, conn) ==
  IF hasMore[k] /\ ~conn.present
    THEN [thrown |-> TRUE, all |-> all[k], hasMore |-> hasMore[k], cursor |-> cursor[k]]
  ELSE IF hasMore[k] /\ Len(conn.nodes) > 0
    THEN [thrown |-> FALSE,
          all |-> all[k] \o TransformAll(conn.nodes),
          hasMore |-> conn.pageInfo.hasNextPage,
          cursor |-> conn.pageInfo.endCursor]
  ELSE [thrown |-> FALSE, all |-> all[k], hasMore |-> FALSE, cursor |-> cursor[k]]

\* The body of the `try` of one iteration, from the awaited response to the
\* progress report.  tag is "throw" (with the exception), "return" (with the
\* FetchResult returned from inside the try) or "next" (the iteration ran to
\* its end); all, cursor and hasMore are the locals as the iteration left them.
InterleavedTry(resp) ==
  LET r    == makeGraphQLRequest(resp)
      body == r.value
      same == [all |-> all, cursor |-> cursor, hasMore |-> hasMore]
      out(tag, e, res, loc) ==
        [tag |-> tag, exception |-> e, result |-> res, all |-> loc.all,
         cursor |-> loc.cursor, hasMore |-> loc.hasMore,
         progress |-> tag = "next" \/ e = CallbackError]
  IN  IF r.thrown THEN out("throw", r.exception, Pending, same)
      ELSE IF Len(body.errors) > 0
        THEN IF body.errors[1].type = "NOT_FOUND"
               THEN out("return", NoException, NotFoundByError, same)
               ELSE out("throw", Exception(body.errors[1].message), Pending, same)
      ELSE IF ~body.repository
        THEN out("return", NoException, NotFoundByData, same)
      ELSE
        LET i    == InterleavedStream("issues", body.issues)
            p    == InterleavedStream("pullRequests", body.pullRequests)
            locI == [all     |-> [all EXCEPT !["issues"] = i.all],
                     cursor  |-> [cursor EXCEPT !["issues"] = i.cursor],
                     hasMore |-> [hasMore EXCEPT !["issues"] = i.hasMore]]
            locP == [all     |-> [locI.all EXCEPT !["pullRequests"] = p.all],
                     cursor  |-> [locI.cursor EXCEPT !["pullRequests"] = p.cursor],
                     hasMore |-> [locI.hasMore EXCEPT !["pullRequests"] = p.hasMore]]
        IN  IF i.thrown THEN out("throw", Exception(TypeErrorMessage), Pending, same)
            ELSE IF p.thrown THEN out("throw", Exception(TypeErrorMessage), Pending, locI)
            ELSE IF CallbackThrows THEN out("throw", CallbackError, Pending, locP)
            ELSE out("next", NoException, Pending, locP)

\* The interleaved fetchAllPages from one awaited response to the next await
\* or to its return.
InterleavedStep(req, resp) ==
  LET t == InterleavedTry(resp)
      more == t.hasMore["issues"] \/ t.hasMore["pullRequests"]
  IN  /\ all' = t.all
      /\ cursor' = t.cursor
      /\ hasMore' = t.hasMore
      /\ log' = Append(log, [req |-> req, resp |-> Digest(resp)])
      /\ progress' = IF t.progress
                       THEN Append(progress, <<Len(t.all["issues"]), Len(t.all["pullRequests"])>>)
                       ELSE progress
      /\ IF t.tag = "throw"
           THEN /\ outcome' = InterleavedCatch(t.exception)
                /\ inflight' = {}
                /\ pc' = "done"
         ELSE IF t.tag = "return"
           THEN /\ outcome' = t.result
                /\ inflight' = {}
                /\ pc' = "done"
         ELSE IF ~more
           THEN /\ outcome' = FetchResult("returned", t.all["issues"], t.all["pullRequests"], NoError)
                /\ inflight' = {}
                /\ pc' = "done"
         ELSE /\ outcome' = outcome
              /\ inflight' = {InterleavedRequest(t.cursor, t.hasMore)}
              /\ pc' = "paging"

\* A combined request is answered.
InterleavedReceive ==
  /\ variant = "interleaved"
  /\ pc = "paging"
  /\ \E req \in inflight : \E resp \in ServerResponses(req) : InterleavedStep(req, resp)
  /\ UNCHANGED <<uiVars, utilVars, token, erratic, throwAt, rawNode, summary, variant, stateFilter, server, drift, page, numPages, result>>

(***************************************************************************)
(* The count-first build (src/unnamed/part_000).                           *)
(***************************************************************************)
\* What a paging loop returned: {data, error?}; NotDone while it runs.
LoopResult(done, data, error) == [done |-> done, data |-> data, error |-> error]
NotDone == LoopResult(FALSE, <<>>, NoError)

\* A page count that adds a page to the full ones, wanted or not.
Ceil_OneMore(totalCount) == totalCount \div PageSize + 1

\* Ceil with the division rounding down (Math.floor for Math.ceil).
Ceil_RoundsDown(totalCount) == totalCount \div PageSize

\* Math.ceil(totalCount / pageSize).
Ceil(totalCount) == (totalCount + PageSize - 1) \div PageSize

\* `x || 0` of a count.
OrZero(x) == IF x = Undefined THEN 0 ELSE x

\* A page request that never carries the cursor.
PageRequest_FromTheStart(k, cur) ==
  Request(k,
          IF k = "issues" THEN buildIssuesQuery(stateFilter)
                          ELSE buildPullRequestsQuery(stateFilter),
          <<>>)

\* The name of the cursor variable and of the query of a loop's requests.
PageRequest(k, cur) ==
  Request(k,
          IF k = "issues" THEN buildIssuesQuery(stateFilter)
                          ELSE buildPullRequestsQuery(stateFilter),
          [v \in (IF cur # Null THEN {"cursor"} ELSE {}) |-> cur])

\* The arguments the orchestrator's wrapper passes on to onProgress for a
\* loop's count: (count, 0) for issues, (0, count) for pull requests.
ProgressArgs(k, count) == IF k = "issues" THEN <<count, 0>> ELSE <<0, count>>

\* Merge that looks at the pull-requests loop's error first.
Merge_PullRequestsFirst(issuesResult, prsResult) ==
  IF prsResult.error # NoError THEN Failure(prsResult.error)
  ELSE IF issuesResult.error # NoError THEN Failure(issuesResult.error)
  ELSE FetchResult("returned", issuesResult.data, prsResult.data, NoError)

\* Merge that hands on the issues already collected when only the
\* pull-requests loop failed.
Merge_KeepsPartialData(issuesResult, prsResult) ==
  IF issuesResult.error # NoError THEN Failure(issuesResult.error)
  ELSE IF prsResult.error # NoError
    THEN FetchResult("returned", issuesResult.data, <<>>, prsResult.error)
  ELSE FetchResult("returned", issuesResult.data, prsResult.data, NoError)

\* The check after both loops have returned: the issues loop's error first.
Merge(issuesResult, prsResult) ==
  IF issuesResult.error # NoError THEN Failure(issuesResult.error)
  ELSE IF prsResult.error # NoError THEN Failure(prsResult.error)
  ELSE FetchResult("returned", issuesResult.data, prsResult.data, NoError)

\* The catch block of the count-first fetchAllPages.
CountCatch(e) == Failure(handleFetchError(e))

\* The catch block of a paging loop: return handleFetchError(error).
LoopCatch(e) == LoopResult(TRUE, <<>>, handleFetchError(e))

\* A combinator that goes on as soon as one of the loops has returned
\* (Promise.race for Promise.all).
AllSettled_Either(res) == res["issues"].done \/ res["pullRequests"].done

\* Promise.all: the orchestrator goes on once both loops have returned.
AllSettled(res) == res["issues"].done /\ res["pullRequests"].done

\* The `try` of the count-first fetchAllPages up to the two totals.
CountTry(resp) ==
  LET r    == makeGraphQLRequest(resp)
      body == r.value
      out(tag, e, res) ==
        [tag |-> tag, exception |-> e, result |-> res,
         issuesTotal |-> OrZero(body.issues.totalCount),
         prsTotal |-> OrZero(body.pullRequests.totalCount)]
  IN  IF r.thrown THEN out("throw", r.exception, Pending)
      ELSE IF Len(body.errors) > 0
        THEN IF body.errors[1].type = "NOT_FOUND"
               THEN out("return", NoException, NotFoundByError)
               ELSE out("throw", Exception(body.errors[1].message), Pending)
      ELSE IF ~body.repository
        THEN out("return", NoException, NotFoundByData)
      ELSE IF ~body.issues.present \/ ~body.pullRequests.present
        THEN out("throw", Exception(TypeErrorMessage), Pending)
      ELSE out("next", NoException, Pending)

\* The start of a paging loop for a total: `if (totalCount === 0) return`,
\* then numPages and the first test of `page < numPages`; the first request
\* carries no cursor.
LoopStart(k, totalCount) ==
  IF totalCount = 0
    THEN [result |-> LoopResult(TRUE, <<>>, NoError), numPages |-> 0, requests |-> {}]
  ELSE IF 0 < Ceil(totalCount)
    THEN [result |-> NotDone, numPages |-> Ceil(totalCount),
          requests |-> {PageRequest(k, Null)}]
  ELSE [result |-> LoopResult(TRUE, <<>>, NoError), numPages |-> Ceil(totalCount),
        requests |-> {}]

\* The count-first fetchAllPages from the awaited count response to the
\* first await of each loop, or to its return.
CountStep(req, resp) ==
  LET t == CountTry(resp)
      i == LoopStart("issues", t.issuesTotal)
      p == LoopStart("pullRequests", t.prsTotal)
      res == [k \in Kinds |-> IF k = "issues" THEN i.result ELSE p.result]
  IN  /\ log' = Append(log, [req |-> req, resp |-> Digest(resp)])
      /\ UNCHANGED <<all, cursor, page, progress>>
      /\ IF t.tag = "throw"
           THEN /\ outcome' = CountCatch(t.exception)
                /\ inflight' = {}
                /\ pc' = "done"
                /\ UNCHANGED <<numPages, result>>
         ELSE IF t.tag = "return"
           THEN /\ outcome' = t.result
                /\ inflight' = {}
                /\ pc' = "done"
                /\ UNCHANGED <<numPages, result>>
         ELSE /\ numPages' = [k \in Kinds |-> IF k = "issues" THEN i.numPages ELSE p.numPages]
              /\ result' = res
              /\ inflight' = i.requests \cup p.requests
              /\ IF AllSettled(res)
                   THEN /\ outcome' = Merge(res["issues"], res["pullRequests"])
                        /\ pc' = "done"
                   ELSE /\ outcome' = outcome
                        /\ pc' = "paging"

\* The count request is answered.
CountReceive ==
  /\ variant = "countFirst"
  /\ pc = "counting"
  /\ \E req \in inflight : \E resp \in ServerResponses(req) : CountStep(req, resp)
  /\ UNCHANGED <<uiVars, utilVars, token, erratic, throwAt, rawNode, summary, variant, stateFilter, server, drift, hasMore>>

\* The `try` of one iteration of the loop of kind k, from the awaited
\* response to the end of the iteration.  tag is "throw", "break" (the loop
\* is left) or "next" (the iteration ran to its end without break).
LoopTry(k, resp) ==
  LET r    == makeGraphQLRequest(resp)
      body == r.value
      conn == IF k = "issues" THEN body.issues ELSE body.pullRequests
      out(tag, e, a, c, called) ==
        [tag |-> tag, exception |-> e, all |-> a, cursor |-> c, progress |-> called]
  IN  IF r.thrown THEN out("throw", r.exception, all[k], cursor[k], FALSE)
      ELSE IF Len(body.errors) > 0
        THEN out("throw", Exception(body.errors[1].message), all[k], cursor[k], FALSE)
      ELSE IF ~body.repository
        THEN out("throw", Exception("Repository not found"), all[k], cursor[k], FALSE)
      ELSE IF ~conn.present
        THEN out("throw", Exception(TypeErrorMessage), all[k], cursor[k], FALSE)
      ELSE IF Len(conn.nodes) > 0 /\ CallbackThrows
        THEN out("throw", CallbackError,
                 all[k] \o TransformAll(conn.nodes), conn.pageInfo.endCursor, TRUE)
      ELSE IF Len(conn.nodes) > 0
        THEN out(IF conn.pageInfo.hasNextPage THEN "next" ELSE "break", NoException,
                 all[k] \o TransformAll(conn.nodes), conn.pageInfo.endCursor, TRUE)
      ELSE out("break", NoException, all[k], cursor[k], FALSE)

\* A paging loop that sends a failed request once more before it gives up.
LoopStep_Retries(k, req, resp) ==
  LET t     == LoopTry(k, resp)
      retry == t.tag = "throw" /\ \A i \in 1..Len(log) : log[i].req # req
      again == t.tag = "next" /\ page[k] + 1 < numPages[k]
      res   == IF retry THEN NotDone
               ELSE IF t.tag = "throw" THEN LoopCatch(t.exception)
               ELSE IF again THEN NotDone
               ELSE LoopResult(TRUE, t.all, NoError)
      results == [result EXCEPT ![k] = res]
  IN  /\ log' = Append(log, [req |-> req, resp |-> Digest(resp)])
      /\ all' = [all EXCEPT ![k] = t.all]
      /\ cursor' = [cursor EXCEPT ![k] = t.cursor]
      /\ progress' = IF t.progress THEN Append(progress, ProgressArgs(k, Len(t.all)))
                                   ELSE progress
      /\ page' = [page EXCEPT ![k] = IF t.tag = "next" THEN @ + 1 ELSE @]
      /\ result' = results
      /\ inflight' = (inflight \ {req})
                       \cup (IF again THEN {PageRequest(k, t.cursor)} ELSE {})
                       \cup (IF retry THEN {req} ELSE {})
      /\ IF AllSettled(results)
           THEN /\ outcome' = Merge(results["issues"], results["pullRequests"])
                /\ pc' = "done"
           ELSE /\ outcome' = outcome
                /\ pc' = "paging"
      /\ UNCHANGED numPages

\* The paging loop of kind k from one awaited response to the next await or
\* to its return, and the orchestrator's merge once both loops have returned.
LoopStep(k, req, resp) ==
  LET t     == LoopTry(k, resp)
      again == t.tag = "next" /\ page[k] + 1 < numPages[k]
      res   == IF t.tag = "throw" THEN LoopCatch(t.exception)
               ELSE IF again THEN NotDone
               ELSE LoopResult(TRUE, t.all, NoError)
      results == [result EXCEPT ![k] = res]
  IN  /\ log' = Append(log, [req |-> req, resp |-> Digest(resp)])
      /\ all' = [all EXCEPT ![k] = t.all]
      /\ cursor' = [cursor EXCEPT ![k] = t.cursor]
      /\ progress' = IF t.progress THEN Append(progress, ProgressArgs(k, Len(t.all)))
                                   ELSE progress
      /\ page' = [page EXCEPT ![k] = IF t.tag = "next" THEN @ + 1 ELSE @]
      /\ result' = results
      /\ inflight' = (inflight \ {req}) \cup (IF again THEN {PageRequest(k, t.cursor)} ELSE {})
      /\ IF AllSettled(results)
           THEN /\ outcome' = Merge(results["issues"], results["pullRequests"])
                /\ pc' = "done"
           ELSE /\ outcome' = outcome
                /\ pc' = "paging"
      /\ UNCHANGED numPages

\* A page request of the issues loop is answered (fetchAllIssuesParallel).
IssuesPageReceive ==
  /\ variant = "countFirst"
  /\ pc = "paging"
  /\ \E req \in inflight :
       /\ req.name = "issues"
       /\ \E resp \in ServerResponses(req) : LoopStep("issues", req, resp)
  /\ UNCHANGED <<uiVars, utilVars, token, erratic, throwAt, rawNode, summary, variant, stateFilter, server, drift, hasMore>>

\* A page request of the pull-requests loop is answered
\* (fetchAllPullRequestsParallel).
PullRequestsPageReceive ==
  /\ variant = "countFirst"
  /\ pc = "paging"
  /\ \E req \in inflight :
       /\ req.name = "pullRequests"
       /\ \E resp \in ServerResponses(req) : LoopStep("pullRequests", req, resp)
  /\ UNCHANGED <<uiVars, utilVars, token, erratic, throwAt, rawNode, summary, variant, stateFilter, server, drift, hasMore>>

(***************************************************************************)
(* The items of the lists.                                                 *)
(***************************************************************************)
\* An issue or pull request as the fetch returns it.
Item(number, itemState, positiveCount, negativeCount) ==
  [number |-> number, state |-> itemState,
   reactions |-> [totalCount |-> positiveCount + negativeCount,
                  positiveCount |-> positiveCount, negativeCount |-> negativeCount]]

(***************************************************************************)
(* The utilities: sorting.                                                 *)
(***************************************************************************)
\* What a call returned, and the value of a result variable before the call.
Returned(value) == [returned |-> TRUE, value |-> value]
NotReturned == [returned |-> FALSE, value |-> <<>>]

\* A comparator that orders by the total of all reactions.
compare_ByTotal(a, b) ==
  LET reactionDiff == b.reactions.totalCount - a.reactions.totalCount
  IN  IF reactionDiff # 0 THEN reactionDiff ELSE b.number - a.number

\* The comparator of sortByReactions: negative when a goes first.
compare(a, b) ==
  LET reactionDiff == b.reactions.positiveCount - a.reactions.positiveCount
  IN  IF reactionDiff # 0 THEN reactionDiff ELSE b.number - a.number

\* Array.prototype.sort with this comparator: the sort is stable, so an
\* item goes after every item already placed that does not compare greater.
RECURSIVE Insert(_, _)
Insert(x, list) ==
  IF list = <<>> THEN <<x>>
  ELSE IF compare(Head(list), x) > 0 THEN <<x>> \o list
  ELSE <<Head(list)>> \o Insert(x, Tail(list))

RECURSIVE SortFrom(_, _)
SortFrom(placed, rest) ==
  IF rest = <<>> THEN placed ELSE SortFrom(Insert(Head(rest), placed), Tail(rest))

\* sortByReactions: a sorted copy of the list.
sortByReactions(list) == SortFrom(<<>>, list)

(***************************************************************************)
(* The utilities: repository validation.  A string is the sequence of its  *)
(* characters.                                                             *)
(***************************************************************************)
\* The characters String.prototype.trim removes (those the inputs use).
Whitespace == {" ", "\t"}

\* `s.trim()`.
RECURSIVE TrimStart(_)
TrimStart(s) ==
  IF s # <<>> /\ Head(s) \in Whitespace THEN TrimStart(Tail(s)) ELSE s

RECURSIVE TrimEnd(_)
TrimEnd(s) ==
  IF s # <<>> /\ s[Len(s)] \in Whitespace THEN TrimEnd(SubSeq(s, 1, Len(s) - 1)) ELSE s

Trim(s) == TrimEnd(TrimStart(s))

\* `s.split(sep)` for a one-character separator: the pieces between the
\* separators, one more than there are separators (so [""] for "").
RECURSIVE SplitFrom(_, _, _)
SplitFrom(s, sep, piece) ==
  IF s = <<>> THEN <<piece>>
  ELSE IF Head(s) = sep THEN <<piece>> \o SplitFrom(Tail(s), sep, <<>>)
  ELSE SplitFrom(Tail(s), sep, Append(piece, Head(s)))

Split(s, sep) == SplitFrom(s, sep, <<>>)

\* `s.includes(c)` for a one-character c.
Includes(s, c) == \E i \in 1..Len(s) : s[i] = c

\* The results of parseRepository: null, or { owner, name }.
NullRepository == [isNull |-> TRUE, owner |-> <<>>, name |-> <<>>]
RepositoryRef(owner, name) == [isNull |-> FALSE, owner |-> owner, name |-> name]

\* A validator that does not look for spaces inside the segments.
parseRepository_AllowsSpaces(input) ==
  LET parts == Split(Trim(input), "/")
  IN  IF Len(parts) # 2 THEN NullRepository
      ELSE IF parts[1] = <<>> \/ parts[2] = <<>> THEN NullRepository
      ELSE RepositoryRef(parts[1], parts[2])

\* parseRepository.
parseRepository(input) ==
  LET trimmed == Trim(input)
      parts   == Split(trimmed, "/")
  IN  IF Len(parts) # 2 THEN NullRepository
      ELSE LET owner == parts[1]
               name  == parts[2]
           IN  IF owner = <<>> \/ name = <<>> \/ Includes(owner, " ") \/ Includes(name, " ")
                 THEN NullRepository
                 ELSE RepositoryRef(owner, name)

(***************************************************************************)
(* The utilities: the display filters.                                     *)
(***************************************************************************)
\* `list.filter(item => item.state === s)`.
RECURSIVE FilterByState(_, _)
FilterByState(list, s) ==
  IF list = <<>> THEN <<>>
  ELSE IF Head(list).state = s THEN <<Head(list)>> \o FilterByState(Tail(list), s)
  ELSE FilterByState(Tail(list), s)

\* filterIssues.
filterIssues(issues, f) ==
  IF f = "all" THEN issues
  ELSE IF f = "open" THEN FilterByState(issues, "OPEN")
  ELSE IF f = "closed" THEN FilterByState(issues, "CLOSED")
  ELSE <<>>

\* A pull-request filter whose 'closed' takes the merged ones along.
filterPullRequests_ClosedOrMerged(prs, f) ==
  IF f = "all" THEN prs
  ELSE IF f = "open" THEN FilterByState(prs, "OPEN")
  ELSE IF f = "closed" THEN FilterByState(prs, "CLOSED") \o FilterByState(prs, "MERGED")
  ELSE IF f = "merged" THEN FilterByState(prs, "MERGED")
  ELSE <<>>

\* filterPullRequests.
filterPullRequests(prs, f) ==
  IF f = "all" THEN prs
  ELSE IF f = "open" THEN FilterByState(prs, "OPEN")
  ELSE IF f = "closed" THEN FilterByState(prs, "CLOSED")
  ELSE IF f = "merged" THEN FilterByState(prs, "MERGED")
  ELSE <<>>

\* No utility has been called.
NoUtilityCall ==
  /\ items = <<>>
  /\ sorted = NotReturned
  /\ filter = "all"
  /\ filtered = [k \in Kinds |-> NotReturned]

(***************************************************************************)
(* The UI controller (src/src/ui.ts).  `state` is the application state,   *)
(* `view` the part of the document the controller reads and writes,        *)
(* `storage` the two localStorage keys, `loads` the calls of               *)
(* fetchRepositoryData that handleLoad has made, and `calls` the functions *)
(* the handler that ran last called, in order.                             *)
(***************************************************************************)
\* localStorage.getItem: null, or the stored string.
Absent == [present |-> FALSE, value |-> <<>>]
Stored(value) == [present |-> TRUE, value |-> value]

\* The characters of a string put together again.
RECURSIVE Join(_)
Join(s) == IF s = <<>> THEN "" ELSE Head(s) \o Join(Tail(s))

\* `tokenInput.value.trim() || undefined`.
TokenOf(text) == IF Trim(text) = <<>> THEN NoToken ELSE Token(Join(Trim(text)))

\* showLoading, showError, showResults: which of the three panels is shown.
showLoading(v) ==
  [v EXCEPT !.loadingShown = TRUE, !.errorShown = FALSE, !.resultsShown = FALSE]
showError(v, error) ==
  [v EXCEPT !.loadingShown = FALSE, !.errorMessage = error.message,
            !.errorShown = TRUE, !.resultsShown = FALSE]
showResults(v) ==
  [v EXCEPT !.loadingShown = FALSE, !.errorShown = FALSE, !.resultsShown = TRUE]

\* A progress callback that displays the two counts as they come.
ProgressCallback_TakesBoth(current, args) == args

\* The progress callback handleLoad passes to fetchRepositoryData: a count
\* above zero replaces the count kept for its kind (currentIssuesCount,
\* currentPRsCount), and the pair kept is what updateLoadingProgress shows.
ProgressCallback(current, args) ==
  <<IF args[1] > 0 THEN args[1] ELSE current[1],
    IF args[2] > 0 THEN args[2] ELSE current[2]>>

\* The pair shown after the first n invocations of the callback in a load;
\* both counts start at 0.
RECURSIVE DisplayedAfter(_)
DisplayedAfter(n) ==
  IF n = 0 THEN <<0, 0>> ELSE ProgressCallback(DisplayedAfter(n - 1), progress[n])

\* A call of fetchRepositoryData and what it has returned so far.
Load(repo, loadStateFilter, tok) ==
  [repo |-> repo, loadStateFilter |-> loadStateFilter, token |-> tok, result |-> Pending]

\* What a call of fetchRepositoryData can return: the lists of a repository
\* with one item of each kind, or an error: the repository was not found,
\* the token was refused, or the network failed.
LoadResults ==
  {FetchResult("returned", <<Item(2, "OPEN", 3, 0)>>, <<Item(1, "MERGED", 1, 1)>>, NoError),
   NotFoundByData}
  \cup {InterleavedCatch(Exception(m)) :
          m \in {"UNAUTHORIZED", "NETWORK"}}

\* Filter buttons that are never disabled.
updateFilterButtons_EnablesAll(v, activeFilter, loadStateFilter) ==
  [v EXCEPT !.disabledFilters = {}, !.activeFilterButton = activeFilter]

\* updateFilterButtons: the buttons 'closed' and 'merged' are disabled when
\* the open items were loaded, the button 'open' when the closed ones were;
\* among the others the button of the active filter is marked.
updateFilterButtons(v, activeFilter, loadStateFilter) ==
  [v EXCEPT
     !.disabledFilters =
        {f \in StateFilters :
           \/ loadStateFilter = "open" /\ f \in {"closed", "merged"}
           \/ loadStateFilter = "closed" /\ f = "open"},
     !.activeFilterButton = activeFilter]

\* A handler that shows the error of an unauthorized load and keeps the token.
HandleLoadFailed_KeepsToken(i, error) ==
  /\ view' = [showError(view, error) EXCEPT !.loadBtnDisabled = FALSE]
  /\ state' = [state EXCEPT !.loading = FALSE]
  /\ calls' = <<"showError">>
  /\ UNCHANGED storage

\* A handler that empties the lists and resets the tab and the display
\* filter when a load fails.
HandleLoadFailed_ClearsLists(i, error) ==
  /\ IF error.type = "UNAUTHORIZED"
       THEN /\ view' = [showError([view EXCEPT !.tokenInput = <<>>,
                                               !.clearTokenShown = FALSE], error)
                          EXCEPT !.loadBtnDisabled = FALSE]
            /\ storage' = [storage EXCEPT !.token = Absent]
            /\ calls' = <<"tokenInput.value = ''", "clearToken", "updateClearTokenButton",
                          "showError">>
       ELSE /\ view' = [showError(view, error) EXCEPT !.loadBtnDisabled = FALSE]
            /\ calls' = <<"showError">>
            /\ UNCHANGED storage
  /\ state' = [state EXCEPT !.loading = FALSE, !.issues = <<>>, !.pullRequests = <<>>,
                            !.activeTab = "issues", !.stateFilter = "all"]

\* handleLoad after the await, `if (result.error)`: an unauthorized load
\* empties the token input and removes the stored token; the error is shown.
HandleLoadFailed(i, error) ==
  /\ IF error.type = "UNAUTHORIZED"
       THEN /\ view' = [showError([view EXCEPT !.tokenInput = <<>>,
                                               !.clearTokenShown = FALSE], error)
                          EXCEPT !.loadBtnDisabled = FALSE]
            /\ storage' = [storage EXCEPT !.token = Absent]
            /\ calls' = <<"tokenInput.value = ''", "clearToken", "updateClearTokenButton",
                          "showError">>
       ELSE /\ view' = [showError(view, error) EXCEPT !.loadBtnDisabled = FALSE]
            /\ calls' = <<"showError">>
            /\ UNCHANGED storage
  /\ state' = [state EXCEPT !.loading = FALSE]

\* handleLoad after the await, without an error: the state takes the lists
\* and the load's filter, the tab and the display filter are reset, and the
\* results are shown.
HandleLoadSucceeded(i, res) ==
  /\ state' = [state EXCEPT !.issues = res.issues, !.pullRequests = res.pullRequests,
                            !.loading = FALSE,
                            !.loadStateFilter = loads[i].loadStateFilter,
                            !.activeTab = "issues", !.stateFilter = "all"]
  /\ view' = [updateFilterButtons(showResults(view), "all", loads[i].loadStateFilter)
                EXCEPT !.loadBtnDisabled = FALSE]
  /\ calls' = <<"updateCounts", "showResults", "switchTab", "updateFilterButtons",
                "renderCurrentTab">>
  /\ UNCHANGED storage

\* handleLoad up to its await: the repository input is validated; a valid
\* one is saved, the token (if any) is saved, the loading panel is shown, the
\* button is disabled, and fetchRepositoryData is called.
HandleLoad ==
  /\ LET repoString == Trim(view.repoInput)
         repo       == parseRepository(repoString)
         tok        == TokenOf(view.tokenInput)
     IN  IF repoString = <<>>
           THEN /\ view' = showError(view,
                            APIError("UNKNOWN",
                                     "Please enter a repository in the format: owner/repo"))
                /\ calls' = <<"showError">>
                /\ UNCHANGED <<state, storage, loads>>
         ELSE IF repo.isNull
           THEN /\ view' = showError(view,
                            APIError("UNKNOWN",
                                     "Invalid repository format. Please use: owner/repo (e.g., facebook/react)"))
                /\ calls' = <<"parseRepository", "showError">>
                /\ UNCHANGED <<state, storage, loads>>
         ELSE /\ Len(loads) < MaxLoads
              /\ storage' = [storage EXCEPT
                               !.lastRepo = Stored(repoString),
                               !.token = IF Truthy(tok) THEN Stored(Trim(view.tokenInput))
                                                        ELSE @]
              /\ state' = [state EXCEPT !.repository = repo, !.loading = TRUE]
              /\ view' = [showLoading(view) EXCEPT !.loadBtnDisabled = TRUE]
              /\ loads' = Append(loads, Load(repo, view.loadStateFilterSelect, tok))
              /\ calls' = <<"parseRepository", "saveLastRepo">>
                          \o (IF Truthy(tok) THEN <<"saveToken">> ELSE <<>>)
                          \o <<"showLoading", "fetchRepositoryData">>
  /\ UNCHANGED <<apiVars, utilVars>>

\* The call of fetchRepositoryData of the i-th load returns, and handleLoad
\* goes on after its await.
HandleLoadResume ==
  /\ \E i \in 1..Len(loads) :
       /\ loads[i].result = Pending
       /\ \E res \in LoadResults :
            /\ loads' = [loads EXCEPT ![i].result = res]
            /\ IF res.error # NoError THEN HandleLoadFailed(i, res.error)
                                      ELSE HandleLoadSucceeded(i, res)
  /\ UNCHANGED <<apiVars, utilVars>>

\* The user clicks the load button; a disabled button takes no click.
LoadClick ==
  /\ ~view.loadBtnDisabled
  /\ HandleLoad

\* The user presses Enter in the repository input or in the token input.
EnterKey == HandleLoad

\* The user clicks one of the two tabs.
TabClick ==
  /\ \E tab \in TabTypes :
       /\ state' = [state EXCEPT !.activeTab = tab]
       /\ calls' = <<"switchTab", "renderCurrentTab">>
  /\ UNCHANGED <<view, storage, loads, apiVars, utilVars>>

\* The user clicks a filter button; the listener returns at once when the
\* button is disabled.
FilterClick ==
  /\ \E f \in StateFilters :
       IF f \in view.disabledFilters
         THEN /\ calls' = <<>>
              /\ UNCHANGED <<state, view>>
         ELSE /\ state' = [state EXCEPT !.stateFilter = f]
              /\ view' = updateFilterButtons(view, f, state.loadStateFilter)
              /\ calls' = <<"updateFilterButtons", "renderCurrentTab">>
  /\ UNCHANGED <<storage, loads, apiVars, utilVars>>

\* What the user types: a token or blanks into the token input, a valid or
\* an invalid repository into the repository input.
TokenTexts == {<<>>, <<" ", "t">>}
RepoTexts == {<<"o", "/", "n">>, <<"o", " ", "n">>}

\* The user edits the token input: the `input` listener shows or hides the
\* clear button and saves a token that is not blank.
TokenInput ==
  /\ \E text \in TokenTexts :
       /\ text # view.tokenInput
       /\ view' = [view EXCEPT !.tokenInput = text, !.clearTokenShown = Trim(text) # <<>>]
       /\ storage' = [storage EXCEPT !.token = IF Trim(text) # <<>> THEN Stored(Trim(text))
                                                                   ELSE @]
       /\ calls' = <<"updateClearTokenButton">>
                   \o (IF Trim(text) # <<>> THEN <<"saveToken">> ELSE <<>>)
  /\ UNCHANGED <<state, loads, apiVars, utilVars>>

\* The user clicks the clear-token button.
ClearTokenClick ==
  /\ view' = [view EXCEPT !.tokenInput = <<>>, !.clearTokenShown = FALSE]
  /\ storage' = [storage EXCEPT !.token = Absent]
  /\ calls' = <<"tokenInput.value = ''", "clearToken", "updateClearTokenButton">>
  /\ UNCHANGED <<state, loads, apiVars, utilVars>>

\* The user edits the repository input (no listener runs).
RepoInput ==
  /\ \E text \in RepoTexts :
       /\ text # view.repoInput
       /\ view' = [view EXCEPT !.repoInput = text]
  /\ calls' = <<>>
  /\ UNCHANGED <<state, storage, loads, apiVars, utilVars>>

\* The user picks another load-state filter (no listener runs).
LoadFilterSelect ==
  /\ \E f \in LoadStateFilters :
       /\ f # view.loadStateFilterSelect
       /\ view' = [view EXCEPT !.loadStateFilterSelect = f]
  /\ calls' = <<>>
  /\ UNCHANGED <<state, storage, loads, apiVars, utilVars>>

\* The application state at start-up.
InitialState ==
  [loading |-> FALSE, error |-> NoError, repository |-> NullRepository,
   issues |-> <<>>, pullRequests |-> <<>>, activeTab |-> "issues",
   stateFilter |-> "all", loadStateFilter |-> "open"]

\* The document after init(): the saved token and the last repository are
\* put into their inputs; no panel is shown.  init() does not call
\* updateFilterButtons, so the filter buttons are as the markup has them,
\* taken here to be enabled with 'all' marked.
InitialView(store, f) ==
  [repoInput |-> store.lastRepo.value, tokenInput |-> store.token.value,
   loadStateFilterSelect |-> f, loadBtnDisabled |-> FALSE,
   clearTokenShown |-> store.token.present,
   loadingShown |-> FALSE, errorShown |-> FALSE, resultsShown |-> FALSE,
   errorMessage |-> "", disabledFilters |-> {}, activeFilterButton |-> "all"]

\* The UI controller has not been started.
NoUi ==
  /\ state = InitialState
  /\ storage = [token |-> Absent, lastRepo |-> Absent]
  /\ view = InitialView(storage, "open")
  /\ loads = <<>>
  /\ calls = <<>>

(***************************************************************************)
(* The call, the server's own changes, and the specification.              *)
(***************************************************************************)
\* A call that posts the first page request of each loop along with the
\* count request.
FetchRepositoryData_PagesAtOnce ==
  /\ pc = "idle"
  /\ IF variant = "interleaved"
       THEN /\ inflight' = {InterleavedRequest(cursor, hasMore)}
            /\ pc' = "paging"
       ELSE /\ inflight' = {Request("count", buildCountQuery(stateFilter), <<>>),
                            PageRequest("issues", Null), PageRequest("pullRequests", Null)}
            /\ pc' = "counting"
  /\ UNCHANGED <<uiVars, utilVars, token, erratic, throwAt, rawNode, summary, variant, stateFilter, server, drift, all, cursor,
                 hasMore, page, numPages, result, outcome, progress, log>>

\* A call that starts over once it has returned.
FetchRepositoryData_Restarts ==
  /\ pc \in {"idle", "done"}
  /\ IF variant = "interleaved"
       THEN /\ inflight' = {InterleavedRequest(cursor, hasMore)}
            /\ pc' = "paging"
       ELSE /\ inflight' = {Request("count", buildCountQuery(stateFilter), <<>>)}
            /\ pc' = "counting"
  /\ UNCHANGED <<uiVars, utilVars, token, erratic, throwAt, rawNode, summary, variant, stateFilter, server, drift, all, cursor,
                 hasMore, page, numPages, result, outcome, progress, log>>

\* fetchRepositoryData is called: the interleaved build posts its first
\* combined request, the count-first build its count request.
FetchRepositoryData ==
  /\ pc = "idle"
  /\ IF variant = "interleaved"
       THEN /\ inflight' = {InterleavedRequest(cursor, hasMore)}
            /\ pc' = "paging"
       ELSE /\ inflight' = {Request("count", buildCountQuery(stateFilter), <<>>)}
            /\ pc' = "counting"
  /\ UNCHANGED <<uiVars, utilVars, token, erratic, throwAt, rawNode, summary, variant, stateFilter, server, drift, all, cursor,
                 hasMore, page, numPages, result, outcome, progress, log>>

\* While the fetch runs, somebody opens a new issue or pull request that the
\* queried states cover.
ServerDrift ==
  /\ pc \in {"counting", "paging"}
  /\ drift < MaxDrift
  /\ \E k \in Kinds : server' = [server EXCEPT ![k]["OPEN"] = @ + 1]
  /\ drift' = drift + 1
  /\ UNCHANGED <<uiVars, utilVars, token, erratic, throwAt, rawNode, summary, variant, stateFilter, pc, inflight, all, cursor,
                 hasMore, page, numPages, result, outcome, progress, log>>

\* A repository: the number of items of each state, of each kind.
Repository(ic, io, pm, pc_, po) ==
  [k \in Kinds |->
     IF k = "issues" THEN [s \in ItemStates |->
                             IF s = "CLOSED" THEN ic ELSE IF s = "OPEN" THEN io ELSE 0]
     ELSE [s \in ItemStates |->
             IF s = "MERGED" THEN pm ELSE IF s = "CLOSED" THEN pc_ ELSE po]]

\* The repositories a call may be made for: one with issues only (one full
\* page of closed ones and a page and a half, or more, of open ones), and
\* one with a full page and one more of closed issues, of closed or merged
\* pull requests, and a full page of open pull requests.
Repositories ==
  {Repository(PageSize, (MaxPages - 1) * PageSize - PageSize \div 2, 0, 0, 0),
   Repository(PageSize + 1, 0, PageSize, 1, PageSize)}

\* No call of calculateReactionCounts has returned.
NoSummary ==
  [totalCount |-> Undefined, positiveCount |-> Undefined, negativeCount |-> Undefined]

\* A raw node with a reported total and a reactionGroups field.
ReactionNode(totalCount, groups) ==
  [number |-> 1, state |-> "OPEN", reactions |-> [totalCount |-> totalCount],
   reactionGroups |-> groups]

\* The locals of a fetch before fetchRepositoryData is called.
NoFetch ==
  /\ drift = 0
  /\ pc = "idle"
  /\ inflight = {}
  /\ all = [k \in Kinds |-> <<>>]
  /\ cursor = [k \in Kinds |-> Null]
  /\ hasMore = [k \in Kinds |-> TRUE]
  /\ page = [k \in Kinds |-> 0]
  /\ numPages = [k \in Kinds |-> 0]
  /\ result = [k \in Kinds |-> NotDone]
  /\ outcome = Pending
  /\ progress = <<>>
  /\ log = <<>>

Init ==
  /\ variant \in Variants
  /\ stateFilter \in LoadStateFilters
  /\ server \in Repositories
  /\ token = NoToken
  /\ erratic = FALSE
  /\ throwAt = 0
  /\ NoUtilityCall
  /\ NoUi
  /\ NoFetch
  /\ rawNode = ReactionNode(0, AbsentGroups)
  /\ summary = NoSummary

Next ==
  \/ FetchRepositoryData
  \/ InterleavedReceive
  \/ CountReceive
  \/ IssuesPageReceive
  \/ PullRequestsPageReceive
  \/ ServerDrift

Spec == Init /\ [][Next]_vars

(***************************************************************************)
(* The reaction aggregator on its own: calculateReactionCounts applied to  *)
(* one raw node of any reported total and any list of reaction groups.     *)
(***************************************************************************)
\* The content kinds of the groups: GitHub's eight, and one it does not have.
ReactionContents ==
  {"THUMBS_UP", "THUMBS_DOWN", "LAUGH", "HOORAY", "CONFUSED", "HEART", "ROCKET", "EYES",
   "OTHER"}

\* The users.totalCount of a group, and the reactions.totalCount of a node.
GroupCounts == {0, 2, 5}
ReportedTotals == {0, 2, 5, 7, 10}

\* The sequences over S of length at most n.
SeqsUpTo(S, n) == UNION {[1..m -> S] : m \in 0..n}

\* The raw nodes handed to the aggregator: any reported total with any list
\* of groups, or with no list at all.
RawNodes ==
  {ReactionNode(t, g) :
     t \in ReportedTotals,
     g \in {AbsentGroups}
           \cup {Groups(l) : l \in SeqsUpTo({ReactionGroup(c, n) : c \in ReactionContents,
                                                                   n \in GroupCounts},
                                             MaxGroups)}}

AggregatorInit ==
  /\ variant = "interleaved"
  /\ stateFilter = "all"
  /\ server = Repository(0, 0, 0, 0, 0)
  /\ token = NoToken
  /\ erratic = FALSE
  /\ throwAt = 0
  /\ NoUtilityCall
  /\ NoUi
  /\ NoFetch
  /\ rawNode \in RawNodes
  /\ summary = NoSummary

\* calculateReactionCounts(rawNode) is called and returns.
Aggregate ==
  /\ summary = NoSummary
  /\ summary' = calculateReactionCounts(rawNode)
  /\ UNCHANGED <<uiVars, utilVars, token, erratic, throwAt, rawNode, variant, stateFilter, server, drift, pc, inflight, all, cursor,
                 hasMore, page, numPages, result, outcome, progress, log>>

AggregatorNext == Aggregate

AggregatorSpec == AggregatorInit /\ [][AggregatorNext]_vars

(***************************************************************************)
(* The requests of a fetch for any filter value and any token: the caller  *)
(* hands fetchRepositoryData whatever string the load-state select holds   *)
(* and whatever the token input holds.  The server serves one repository   *)
(* and does not change.                                                    *)
(***************************************************************************)
\* The values of the stateFilter argument: the three of LoadStateFilter and
\* one that the type does not have.
FilterValues == LoadStateFilters \cup {"merged"}

\* The values of the token argument: none, the empty string, two strings.
Tokens == {NoToken, Token(""), Token("ghp_a1"), Token(" ")}

RequestInit ==
  /\ variant \in Variants
  /\ stateFilter \in FilterValues
  /\ server = Repository(PageSize + 1, 0, PageSize, 1, PageSize)
  /\ token \in Tokens
  /\ erratic = FALSE
  /\ throwAt = 0
  /\ NoUtilityCall
  /\ NoUi
  /\ NoFetch
  /\ rawNode = ReactionNode(0, AbsentGroups)
  /\ summary = NoSummary

RequestNext ==
  \/ FetchRepositoryData
  \/ InterleavedReceive
  \/ CountReceive
  \/ IssuesPageReceive
  \/ PullRequestsPageReceive

RequestSpec == RequestInit /\ [][RequestNext]_vars

(***************************************************************************)
(* The fetch against a server that does not change but may answer a page   *)
(* request with an odd page.                                               *)
(***************************************************************************)
ErraticInit ==
  /\ variant \in Variants
  /\ stateFilter \in LoadStateFilters
  /\ server \in Repositories
  /\ token = NoToken
  /\ erratic = TRUE
  /\ throwAt = 0
  /\ NoFetch
  /\ rawNode = ReactionNode(0, AbsentGroups)
  /\ summary = NoSummary
  /\ NoUtilityCall
  /\ NoUi

ErraticNext ==
  \/ FetchRepositoryData
  \/ InterleavedReceive
  \/ CountReceive
  \/ IssuesPageReceive
  \/ PullRequestsPageReceive

ErraticSpec == ErraticInit /\ [][ErraticNext]_vars

(***************************************************************************)
(* The fetch with a progress callback of which one invocation may throw.   *)
(***************************************************************************)
CallbackInit ==
  /\ variant \in Variants
  /\ stateFilter \in LoadStateFilters
  /\ server \in Repositories
  /\ token = NoToken
  /\ erratic = FALSE
  /\ throwAt \in 0..MaxCalls
  /\ NoFetch
  /\ rawNode = ReactionNode(0, AbsentGroups)
  /\ summary = NoSummary
  /\ NoUtilityCall
  /\ NoUi

CallbackNext ==
  \/ FetchRepositoryData
  \/ InterleavedReceive
  \/ CountReceive
  \/ IssuesPageReceive
  \/ PullRequestsPageReceive

CallbackSpec == CallbackInit /\ [][CallbackNext]_vars

(***************************************************************************)
(* sortByReactions on its own, applied to any short list of items.         *)
(***************************************************************************)
\* The items to sort: four numbers, three positive counts, with and without
\* negative reactions.
SortItems ==
  {Item(n, "OPEN", p, m) : n \in {1, 5, 10, 20}, p \in {1, 3, 7}, m \in {0, 9}}

\* Positive counts 3, 7, 7, 1 on the items numbered 10, 20, 5, 1.
SortExample ==
  <<Item(10, "OPEN", 3, 0), Item(20, "OPEN", 7, 9), Item(5, "OPEN", 7, 0),
    Item(1, "OPEN", 1, 9)>>

SortInit ==
  /\ variant = "interleaved"
  /\ stateFilter = "all"
  /\ server = Repository(0, 0, 0, 0, 0)
  /\ token = NoToken
  /\ erratic = FALSE
  /\ throwAt = 0
  /\ NoFetch
  /\ rawNode = ReactionNode(0, AbsentGroups)
  /\ summary = NoSummary
  /\ items \in SeqsUpTo(SortItems, MaxItems) \cup {SortExample}
  /\ NoUi
  /\ sorted = NotReturned
  /\ filter = "all"
  /\ filtered = [k \in Kinds |-> NotReturned]

\* sortByReactions(items) is called and returns.
Sort ==
  /\ ~sorted.returned
  /\ sorted' = Returned(sortByReactions(items))
  /\ UNCHANGED <<uiVars, items, filter, filtered, token, erratic, throwAt, rawNode, summary, variant, stateFilter, server, drift, pc,
                 inflight, all, cursor, hasMore, page, numPages, result, outcome,
                 progress, log>>

SortNext == Sort

SortSpec == SortInit /\ [][SortNext]_vars

(***************************************************************************)
(* The display filters on their own, applied to any short list.            *)
(***************************************************************************)
\* StateFilter, and a value the type does not have.
FilterArguments == StateFilters \cup {"draft"}

\* The items to filter: two numbers in each of the three states.
FilterItems == {Item(n, s, 1, 0) : n \in {1, 2}, s \in ItemStates}

FilterInit ==
  /\ variant = "interleaved"
  /\ stateFilter = "all"
  /\ server = Repository(0, 0, 0, 0, 0)
  /\ token = NoToken
  /\ erratic = FALSE
  /\ throwAt = 0
  /\ NoFetch
  /\ rawNode = ReactionNode(0, AbsentGroups)
  /\ summary = NoSummary
  /\ NoUi
  /\ items \in SeqsUpTo(FilterItems, MaxItems)
  /\ sorted = NotReturned
  /\ filter \in FilterArguments
  /\ filtered = [k \in Kinds |-> NotReturned]

\* filterIssues(items, filter) is called and returns.
FilterIssues ==
  /\ ~filtered["issues"].returned
  /\ filtered' = [filtered EXCEPT !["issues"] = Returned(filterIssues(items, filter))]
  /\ UNCHANGED <<items, sorted, filter, uiVars, apiVars>>

\* filterPullRequests(items, filter) is called and returns.
FilterPullRequests ==
  /\ ~filtered["pullRequests"].returned
  /\ filtered' = [filtered EXCEPT
                    !["pullRequests"] = Returned(filterPullRequests(items, filter))]
  /\ UNCHANGED <<items, sorted, filter, uiVars, apiVars>>

FilterNext ==
  \/ FilterIssues
  \/ FilterPullRequests

FilterSpec == FilterInit /\ [][FilterNext]_vars

(***************************************************************************)
(* The UI controller: the user's events and the loads they start.          *)
(***************************************************************************)
UiInit ==
  /\ variant = "interleaved"
  /\ stateFilter = "all"
  /\ server = Repository(0, 0, 0, 0, 0)
  /\ token = NoToken
  /\ erratic = FALSE
  /\ throwAt = 0
  /\ NoFetch
  /\ rawNode = ReactionNode(0, AbsentGroups)
  /\ summary = NoSummary
  /\ NoUtilityCall
  /\ state = InitialState
  /\ storage \in {[token |-> t, lastRepo |-> Absent] : t \in {Absent, Stored(<<"t">>)}}
  /\ view = InitialView(storage, "all")
  /\ loads = <<>>
  /\ calls = <<>>

UiNext ==
  \/ HandleLoad
  \/ HandleLoadResume
  \/ TokenInput
  \/ ClearTokenClick
  \/ RepoInput

UiSpec == UiInit /\ [][UiNext]_vars

(***************************************************************************)
(* The loads: clicks and Enter keys while earlier loads are awaited, tab   *)
(* and filter clicks, with a valid or an invalid repository in the input.  *)
(***************************************************************************)
LoadsInit ==
  /\ variant = "interleaved"
  /\ stateFilter = "all"
  /\ server = Repository(0, 0, 0, 0, 0)
  /\ token = NoToken
  /\ erratic = FALSE
  /\ throwAt = 0
  /\ NoFetch
  /\ rawNode = ReactionNode(0, AbsentGroups)
  /\ summary = NoSummary
  /\ NoUtilityCall
  /\ state = InitialState
  /\ storage = [token |-> Absent, lastRepo |-> Stored(<<"o", "/", "n">>)]
  /\ \E f \in LoadStateFilters : \E text \in RepoTexts :
       view = [InitialView(storage, f) EXCEPT !.repoInput = text]
  /\ loads = <<>>
  /\ calls = <<>>

LoadsNext ==
  \/ LoadClick
  \/ EnterKey
  \/ HandleLoadResume
  \/ LoadFilterSelect
  \/ TabClick
  \/ FilterClick

LoadsSpec == LoadsInit /\ [][LoadsNext]_vars

(***************************************************************************)
(* handleLoad on any repository input.                                     *)
(***************************************************************************)
\* The strings typed into the repository input: letters, blanks, slashes.
RepoCharacters == {"o", "n", " ", "\t", "/"}

ValidationInit ==
  /\ variant = "interleaved"
  /\ stateFilter = "all"
  /\ server = Repository(0, 0, 0, 0, 0)
  /\ token = NoToken
  /\ erratic = FALSE
  /\ throwAt = 0
  /\ NoFetch
  /\ rawNode = ReactionNode(0, AbsentGroups)
  /\ summary = NoSummary
  /\ NoUtilityCall
  /\ state = InitialState
  /\ storage = [token |-> Absent, lastRepo |-> Absent]
  /\ \E text \in SeqsUpTo(RepoCharacters, MaxInput) :
       view = [InitialView(storage, "all") EXCEPT !.repoInput = text]
  /\ loads = <<>>
  /\ calls = <<>>

ValidationNext ==
  \/ HandleLoad
  \/ HandleLoadResume

ValidationSpec == ValidationInit /\ [][ValidationNext]_vars

(***************************************************************************)
(* Vocabulary of the properties: what the log says of each answered        *)
(* request.                                                                *)
(***************************************************************************)
Done == pc = "done"
Answered == 1..Len(log)
Succeeded == Done /\ outcome.status = "returned" /\ outcome.error = NoError
BothListsEmpty == outcome.issues = <<>> /\ outcome.pullRequests = <<>>

\* What the i-th answer carried for kind k.
ConnOf(i, k) == IF k = "issues" THEN log[i].resp.issues ELSE log[i].resp.pullRequests

\* The i-th request got no response / a non-2xx one / a 2xx one whose body
\* does not parse / a 2xx one with a parsed body.
NoConnectivity(i) == log[i].resp.status = 0
HttpFailure(i) == log[i].resp.status # 0 /\ ~Ok(log[i].resp.status)
Unparsable(i) == Ok(log[i].resp.status) /\ ~log[i].resp.parsable
Parsed(i) == Ok(log[i].resp.status) /\ log[i].resp.parsable
TransportFailure(i) == NoConnectivity(i) \/ HttpFailure(i) \/ Unparsable(i)

\* The parsed body carries an errors array / carries none and has no
\* repository object / has a repository object.
GraphQLFailure(i) == Parsed(i) /\ Len(log[i].resp.errors) > 0
NoRepository(i) == Parsed(i) /\ log[i].resp.errors = <<>> /\ ~log[i].resp.repository
HasRepository(i) == Parsed(i) /\ log[i].resp.errors = <<>> /\ log[i].resp.repository

\* The query of the i-th request selects the connection of kind k.
Asked(i, k) == log[i].req.name \in {"count", "combined", k}

\* Malformed shapes: the repository object lacks a connection the query
\* selected, or a connection of the count query lacks its totalCount.
MissingConnection(i, k) == HasRepository(i) /\ Asked(i, k) /\ ~ConnOf(i, k).present
MissingTotal(i, k) ==
  /\ HasRepository(i)
  /\ log[i].req.name = "count"
  /\ ConnOf(i, k).present
  /\ ConnOf(i, k).totalCount = Undefined
MalformedShape(i) ==
  NoRepository(i) \/ \E k \in Kinds : MissingConnection(i, k) \/ MissingTotal(i, k)

\* The i-th answer carried a page of kind k that ends the paging of k: an
\* empty page, or one that reports no next page.
LastPageOf(i, k) == ConnOf(i, k).count = 0 \/ ~ConnOf(i, k).pageInfo.hasNextPage

\* Interleaved build: stream k was finished by an answer before the i-th.
ExhaustedBefore(i, k) == \E j \in 1..(i - 1) : LastPageOf(j, k)

\* The answers that carried a page of kind k the client was still reading:
\* the answers to the page requests of loop k, or the combined answers up to
\* the one that finished stream k.
PagesOf(k) ==
  {i \in Answered :
     \/ log[i].req.name = k
     \/ log[i].req.name = "combined" /\ ~ExhaustedBefore(i, k)}

\* The largest member of a non-empty set of numbers.
Last(S) == CHOOSE i \in S : \A j \in S : j <= i

(***************************************************************************)
(* C1.  If the returned outcome has its error field set, outcome.issues    *)
(* and outcome.pullRequests are both empty, in both builds and for every   *)
(* sequence of answers: also when pages had been accumulated before the    *)
(* failure, and when one loop of the count-first build returned its data   *)
(* while the other failed.                                                 *)
(***************************************************************************)
C1_ErrorMeansEmptyLists == outcome.error # NoError => BothListsEmpty

\* The count-first build returned an error although its issues loop had
\* returned a non-empty list: the pull-requests loop failed on a later page,
\* after it had accumulated items of its own.
C1_Witness ==
  /\ Done
  /\ variant = "countFirst"
  /\ outcome.error # NoError
  /\ result["issues"].done
  /\ result["issues"].error = NoError
  /\ result["issues"].data # <<>>
  /\ all["pullRequests"] # <<>>
  /\ result["pullRequests"].error # NoError

(***************************************************************************)
(* C2.  fetchRepositoryData never fails with an exception, and (as the     *)
(* claim has it) whenever a request of the fetch met a transport failure,  *)
(* an errors array or a malformed shape, the returned outcome has its      *)
(* error field set.                                                        *)
(***************************************************************************)
C2_Original ==
  Done =>
    /\ outcome.status = "returned"
    /\ (\E i \in Answered : TransportFailure(i) \/ GraphQLFailure(i) \/ MalformedShape(i))
         => outcome.error # NoError

\* The malformed shapes the code cannot read: no repository object, no
\* connection in the answer to the count query or to a page request of the
\* connection's own loop, no connection of a stream of the interleaved build
\* that is still being read.
UnreadableShape(i) ==
  \/ NoRepository(i)
  \/ \E k \in Kinds :
       /\ MissingConnection(i, k)
       /\ log[i].req.name = "combined" => ~ExhaustedBefore(i, k)

\* C2 as amended: no exception ever reaches the caller; every transport
\* failure, every errors array and every shape the code cannot read ends in
\* a returned outcome with the error field set.  (A count without totalCount
\* is read as 0 and a missing connection of a finished stream is not read:
\* neither sets the error field.)
C2_NeverThrows ==
  /\ outcome.status # "thrown"
  /\ Done =>
       /\ outcome.status = "returned"
       /\ (\E i \in Answered : TransportFailure(i) \/ GraphQLFailure(i) \/ UnreadableShape(i))
            => outcome.error # NoError

\* A fetch ended after a page had been read and a later answer had an
\* unparsable body or lacked a connection.
C2_Witness ==
  /\ Done
  /\ \E i \in Answered :
       /\ i > 1
       /\ Unparsable(i) \/ \E k \in Kinds : MissingConnection(i, k)
       /\ outcome.error.type = "UNKNOWN"

(***************************************************************************)
(* C3.  Whenever the outcome carries no error, every page the server       *)
(* offers has been drained for both kinds: the last page the fetch read of *)
(* a kind was empty or reported hasNextPage = false.                       *)
(***************************************************************************)
C3_AllPagesDrained ==
  Succeeded =>
    \A k \in Kinds : PagesOf(k) # {} => LastPageOf(Last(PagesOf(k)), k)

(***************************************************************************)
(* C4.  Whenever some request of a fetch is answered with HTTP status 401, *)
(* the outcome's error kind is UNAUTHORIZED and both lists are empty.      *)
(***************************************************************************)
C4_Original ==
  (Done /\ \E i \in Answered : log[i].resp.status = 401)
    => outcome.error.type = "UNAUTHORIZED" /\ BothListsEmpty

\* C4 as amended: after a 401 both lists are empty and the kind is
\* UNAUTHORIZED, except that in the count-first build a 401 that answered a
\* page request of the pull-requests loop is not reported when the issues
\* loop failed as well: the outcome then carries the issues loop's error.
C4_Unauthorized ==
  (Done /\ \E i \in Answered : log[i].resp.status = 401)
    => /\ BothListsEmpty
       /\ IF \/ \E i \in Answered : log[i].resp.status = 401 /\ log[i].req.name # "pullRequests"
             \/ result["issues"].error = NoError
            THEN outcome.error.type = "UNAUTHORIZED"
            ELSE outcome.error = result["issues"].error

\* A 401 answered a later page request, after items had been accumulated.
C4_Witness ==
  /\ Done
  /\ \E i \in Answered : i > 1 /\ log[i].resp.status = 401
  /\ \E k \in Kinds : all[k] # <<>>
  /\ outcome.error.type = "UNAUTHORIZED"

(***************************************************************************)
(* C5.  When exactly one request of a fetch fails and it fails with a      *)
(* non-2xx status s, the outcome's error kind is UNAUTHORIZED for 401,     *)
(* RATE_LIMIT for 403 and NETWORK for every other s; and 2xx responses     *)
(* never produce one of these transport kinds, even when a body carries an *)
(* errors array.                                                           *)
(***************************************************************************)
TransportKinds == {"UNAUTHORIZED", "RATE_LIMIT", "NETWORK"}

\* The kind the transport client's table gives for a non-2xx status.
KindOfStatus(s) ==
  IF s = 401 THEN "UNAUTHORIZED" ELSE IF s = 403 THEN "RATE_LIMIT" ELSE "NETWORK"

\* The i-th request failed: by transport, by an errors array or by a shape
\* the code cannot read.
FailedRequest(i) == TransportFailure(i) \/ GraphQLFailure(i) \/ UnreadableShape(i)

\* C5: with one failed request, of non-2xx status s, the kind is the one the
\* table gives for s; with 2xx answers only, the kind is no transport kind.
C5_KindByStatusAlone ==
  Done =>
    /\ \A i \in Answered :
         (HttpFailure(i) /\ \A j \in Answered \ {i} : ~FailedRequest(j))
           => outcome.error.type = KindOfStatus(log[i].resp.status)
    /\ (\A i \in Answered : Ok(log[i].resp.status))
         => outcome.error.type \notin TransportKinds

(***************************************************************************)
(* C6.  If the network exchange of any request of a fetch fails and no     *)
(* HTTP response is obtained, the outcome's error kind is NETWORK.         *)
(***************************************************************************)
C6_ConnectivityIsNetwork ==
  (Done /\ \E i \in Answered : NoConnectivity(i)) => outcome.error.type = "NETWORK"

(***************************************************************************)
(* C7.  Whenever an answer to any request of a fetch (the count query or   *)
(* a page query of either kind) carries an errors array with an entry of   *)
(* type NOT_FOUND, the outcome's error kind is NOT_FOUND and no exception  *)
(* reaches the caller.  Stated here for the arrays whose first entry, the  *)
(* one the code reads, is the NOT_FOUND one; the claim covers them.        *)
(***************************************************************************)
C7_NotFoundEntry ==
  (Done /\ \E i \in Answered :
             GraphQLFailure(i) /\ log[i].resp.errors[1].type = "NOT_FOUND")
    => outcome.status = "returned" /\ outcome.error.type = "NOT_FOUND"

(***************************************************************************)
(* C8.  Whenever a 2xx answer to any request of a fetch has no errors and  *)
(* no repository object, the outcome's error kind is NOT_FOUND and both    *)
(* lists are empty.                                                        *)
(***************************************************************************)
C8_NoRepositoryIsNotFound ==
  (Done /\ \E i \in Answered : NoRepository(i))
    => outcome.error.type = "NOT_FOUND" /\ BothListsEmpty

(***************************************************************************)
(* C9.  For every errors array whose entry (the first one, which the code  *)
(* reads) has a type other than NOT_FOUND, whatever message m it carries,  *)
(* the outcome's error kind is UNKNOWN and its message is m, unchanged.    *)
(* Stated for the fetches in which no other request failed, so that the    *)
(* error reported can only be this entry's.                                *)
(***************************************************************************)
C9_MessageSurfacedAsIs ==
  Done =>
    \A i \in Answered :
      ( /\ GraphQLFailure(i)
        /\ log[i].resp.errors[1].type # "NOT_FOUND"
        /\ \A j \in Answered \ {i} : ~FailedRequest(j) )
        => outcome.error = APIError("UNKNOWN", log[i].resp.errors[1].message)

(***************************************************************************)
(* C10.  Count-first build: for a kind whose count query reported          *)
(* totalCount t, when the server serves those t items in pages of 100      *)
(* without failure, the loop issues exactly ceil(t / 100) page requests    *)
(* and returns the t items: no request for 0, one for 100, two for 101,    *)
(* three for 250.                                                          *)
(***************************************************************************)
\* The requests of loop k that have been answered, and those still in flight.
PageRequestsOf(k) ==
  Cardinality({i \in Answered : log[i].req.name = k})
  + Cardinality({r \in inflight : r.name = k})

\* Loop k was served without failure: nothing was created on the server
\* meanwhile and each of its requests got the page it asked for.
ServedFaithfully(k) ==
  /\ drift = 0
  /\ \A i \in Answered : log[i].req.name = k => HasRepository(i) /\ ConnOf(i, k).present

\* ceil(t / 100) of the claim: the least n with n * 100 >= t.
CeilOfClaim(t) == CHOOSE n \in 0..t : n * 100 >= t /\ (n = 0 \/ (n - 1) * 100 < t)

\* C10: a count-first loop served faithfully for a count of t has issued
\* ceil(t / 100) page requests and returned t items.
C10_CeilPageRequests ==
  \A k \in Kinds :
    (variant = "countFirst" /\ result[k].done /\ ServedFaithfully(k)
       /\ ConnOf(1, k).totalCount # Undefined)
      => /\ PageRequestsOf(k) = CeilOfClaim(ConnOf(1, k).totalCount)
         /\ Len(result[k].data) = ConnOf(1, k).totalCount

\* A loop whose count was 250 (or more) returned after three (or more)
\* requests, and in the same fetch the other loop made none for a count of 0.
C10_Witness ==
  /\ variant = "countFirst"
  /\ Done
  /\ ServedFaithfully("issues")
  /\ ConnOf(1, "issues").totalCount >= 250
  /\ PageRequestsOf("issues") >= 3
  /\ Len(outcome.issues) = ConnOf(1, "issues").totalCount
  /\ ConnOf(1, "pullRequests").totalCount = 0
  /\ PageRequestsOf("pullRequests") = 0

(***************************************************************************)
(* Vocabulary of the paging properties.                                    *)
(***************************************************************************)
\* The i-th answer was read to its end: it carried a repository object and
\* every connection the code went on to read.
Ingested(i) == HasRepository(i) /\ ~UnreadableShape(i)
AllIngested == \A i \in Answered : Ingested(i)

\* The i-th answer carried every connection its query selects.
WellFormed(i) == Ingested(i) /\ \A k \in Kinds : Asked(i, k) => ConnOf(i, k).present

\* After the i-th answer stream k still reports a next page.
StillHasNext(i, k) == ~ExhaustedBefore(i + 1, k)

\* The number of pages of kind k the server holds under the load-state filter.
PagesHeld(k) ==
  LET q == buildQuery(stateFilter)
  IN  CeilOfClaim(Total(server, k, IF k = "issues" THEN q.issueStates ELSE q.prStates))

(***************************************************************************)
(* C11.  Interleaved build: after each ingested answer another combined    *)
(* request is issued if and only if at least one of the two streams still  *)
(* has a next page, and the fetch returns success exactly when both        *)
(* streams report no further page; against a failure-free server holding   *)
(* pI pages of issues and pP pages of pull requests the fetch ends after   *)
(* max(1, pI, pP) requests.                                                *)
(***************************************************************************)
C11_InterleavedLoop ==
  (variant = "interleaved" /\ log # <<>> /\ AllIngested) =>
    LET n    == Len(log)
        more == \E k \in Kinds : StillHasNext(n, k)
    IN  /\ more <=> Cardinality(inflight) = 1
        /\ ~more <=> inflight = {}
        /\ ~more <=> Succeeded
        /\ (Done /\ drift = 0 /\ \A i \in Answered : WellFormed(i))
             => n = Max(1, Max(PagesHeld("issues"), PagesHeld("pullRequests")))

\* A fetch of the interleaved build succeeded after three requests against a
\* server with two pages of issues and three of pull requests: the third
\* request was issued although the issues were exhausted.
C11_Witness ==
  /\ variant = "interleaved"
  /\ Succeeded
  /\ drift = 0
  /\ \A i \in Answered : WellFormed(i)
  /\ Len(log) = 3
  /\ PagesHeld("issues") = 2
  /\ ExhaustedBefore(3, "issues")
  /\ ~ExhaustedBefore(3, "pullRequests")

\* The raw nodes of the page of kind k that the i-th answer carried, rebuilt
\* from its length and its end cursor: the items from the newest of the page
\* down to the one the cursor names.
PageNodes(i, k) ==
  LET c  == ConnOf(i, k).count
      lo == ConnOf(i, k).pageInfo.endCursor
  IN  [j \in 1..c |-> RawNode(server, k, lo + c - j)]

RECURSIVE IngestedUpTo(_, _)
\* The items of the pages of kind k among the first n answers, page after
\* page in the order the answers came, each page in the order it listed them.
IngestedUpTo(k, n) ==
  IF n = 0 THEN <<>>
  ELSE IngestedUpTo(k, n - 1)
       \o (IF n \in PagesOf(k) /\ ConnOf(n, k).present
             THEN [j \in 1..ConnOf(n, k).count |-> Transform(PageNodes(n, k)[j])]
             ELSE <<>>)

(***************************************************************************)
(* C12.  At every point of a fetch the accumulator of each kind is the     *)
(* concatenation of the node lists of the pages ingested so far for that   *)
(* kind, in the order the pages were received (nothing removed, reordered  *)
(* or duplicated), and the list of a successful outcome is that            *)
(* concatenation over all pages.                                           *)
(***************************************************************************)
C12_OrderedConcatenation ==
  AllIngested =>
    /\ \A k \in Kinds : all[k] = IngestedUpTo(k, Len(log))
    /\ Succeeded => /\ outcome.issues = IngestedUpTo("issues", Len(log))
                    /\ outcome.pullRequests = IngestedUpTo("pullRequests", Len(log))

\* A fetch succeeded with three pages of pull requests and two of issues.
C12_Witness ==
  /\ Succeeded
  /\ Cardinality({i \in PagesOf("pullRequests") : ConnOf(i, "pullRequests").count > 0}) = 3
  /\ Cardinality({i \in PagesOf("issues") : ConnOf(i, "issues").count > 0}) = 2
  /\ Len(outcome.pullRequests) > 2 * PageSize
  /\ outcome.pullRequests[1].number > outcome.pullRequests[Len(outcome.pullRequests)].number

\* The non-empty pages of kind k ingested so far.
NonEmptyPagesOf(k) ==
  {i \in PagesOf(k) : ConnOf(i, k).present /\ ConnOf(i, k).count > 0}

(***************************************************************************)
(* C13.  Over all onProgress invocations of one fetch, in every order in   *)
(* which the pages of the two kinds complete, the issuesCount argument     *)
(* never decreases and the prsCount argument never decreases, and every    *)
(* completed non-empty page is followed by an invocation.                  *)
(***************************************************************************)
C13_ProgressMonotone ==
  /\ \A i, j \in 1..Len(progress) :
       i < j => progress[i][1] <= progress[j][1] /\ progress[i][2] <= progress[j][2]
  /\ AllIngested => \A k \in Kinds : Cardinality(NonEmptyPagesOf(k)) <= Len(progress)

(***************************************************************************)
(* C14.  For every successful fetch that ingested a page, the last         *)
(* onProgress invocation reports (outcome.issues.length,                   *)
(* outcome.pullRequests.length); so 150 open issues and no pull request    *)
(* under the filter open end with a call of (150, 0).                      *)
(***************************************************************************)
C14_FinalProgress ==
  (Succeeded /\ \E k \in Kinds : PagesOf(k) # {})
    => /\ progress # <<>>
       /\ progress[Len(progress)] = <<Len(outcome.issues), Len(outcome.pullRequests)>>

\* The variable of request req that carries the cursor of kind k.
CursorVariable(req, k) ==
  IF req.name = "combined"
    THEN IF k = "issues" THEN "issuesCursor" ELSE "prsCursor"
    ELSE "cursor"

\* The answered requests before the i-th that asked for a page of kind k.
Preceding(i, k) == {j \in 1..(i - 1) : log[j].req.name \in {"combined", k}}

\* Request req, the i-th of the fetch, carries no cursor of kind k when it
\* is the first to ask for a page of k, and otherwise the end cursor of the
\* page of k received last (none when that page had none).
FollowsCursor(req, i, k) ==
  IF Preceding(i, k) = {}
    THEN CursorVariable(req, k) \notin DOMAIN req.variables
    ELSE CursorOf(req, CursorVariable(req, k))
           = ConnOf(Last(Preceding(i, k)), k).pageInfo.endCursor

\* The same, except that a combined request sent after stream k was
\* exhausted carries no cursor of kind k.
FollowsCursorWhileOpen(req, i, k) ==
  IF req.name = "combined" /\ ExhaustedBefore(i, k)
    THEN CursorVariable(req, k) \notin DOMAIN req.variables
    ELSE FollowsCursor(req, i, k)

(***************************************************************************)
(* C15.  For each kind, the first page request of a fetch carries no       *)
(* cursor variable at all, and every later page request for that kind      *)
(* carries the endCursor of the page received for that kind immediately    *)
(* before.                                                                 *)
(***************************************************************************)
C15_Original ==
  \A k \in Kinds :
    /\ \A i \in Answered :
         log[i].req.name \in {"combined", k} => FollowsCursor(log[i].req, i, k)
    /\ \A r \in inflight :
         r.name \in {"combined", k} => FollowsCursor(r, Len(log) + 1, k)

\* C15 as amended: the same, but the combined requests that the interleaved
\* build sends after a stream was exhausted carry no cursor for that stream,
\* although they ask for its connection.
C15_Cursors ==
  \A k \in Kinds :
    /\ \A i \in Answered :
         log[i].req.name \in {"combined", k} => FollowsCursorWhileOpen(log[i].req, i, k)
    /\ \A r \in inflight :
         r.name \in {"combined", k} => FollowsCursorWhileOpen(r, Len(log) + 1, k)

\* A third combined request carried the pull requests' end cursor of the
\* second answer and no cursor for the issues, exhausted by then; and a
\* second page request of a count-first loop carried the first page's cursor.
C15_Witness ==
  \/ /\ variant = "interleaved"
     /\ Len(log) >= 3
     /\ ExhaustedBefore(3, "issues")
     /\ DOMAIN log[3].req.variables = {"prsCursor"}
     /\ log[3].req.variables["prsCursor"] = ConnOf(2, "pullRequests").pageInfo.endCursor
     /\ log[3].req.variables["prsCursor"] # Null
  \/ /\ variant = "countFirst"
     /\ \E i, j \in Answered :
          /\ i < j
          /\ log[i].req.name = "issues" /\ log[j].req.name = "issues"
          /\ log[i].req.variables = <<>>
          /\ DOMAIN log[j].req.variables = {"cursor"}
          /\ log[j].req.variables["cursor"] = ConnOf(i, "issues").pageInfo.endCursor

\* The position of kind k among the arguments of onProgress.
ArgumentOf(k) == IF k = "issues" THEN 1 ELSE 2

\* The page requests of kind k in flight.
InFlightFor(k) == {r \in inflight : r.name \in {"combined", k}}

\* Everything the answers so far carried for kind k has been taken in: the
\* nodes are in the accumulator, the cursor is the last page's end cursor
\* and the accumulator's length has been reported.
FullyIngested(k) ==
  /\ all[k] = IngestedUpTo(k, Len(log))
  /\ NonEmptyPagesOf(k) # {} =>
       /\ cursor[k] = ConnOf(Last(NonEmptyPagesOf(k)), k).pageInfo.endCursor
       /\ \E j \in 1..Len(progress) : progress[j][ArgumentOf(k)] = Len(all[k])

(***************************************************************************)
(* C16.  Within one fetch at most one page request per kind is in flight   *)
(* at any time, and the request for the next page of a kind is in flight   *)
(* only when everything received for that kind has been fully ingested     *)
(* (nodes appended, cursor updated, progress reported).  In the count-first *)
(* build no page request is in flight before the count answer has been     *)
(* received, and at most two requests, one per kind, are in flight at once. *)
(***************************************************************************)
C16_OneRequestPerKind ==
  /\ \A k \in Kinds : Cardinality(InFlightFor(k)) <= 1
  /\ \A k \in Kinds : InFlightFor(k) # {} => FullyIngested(k)
  /\ variant = "countFirst" =>
       /\ Cardinality(inflight) <= 2
       /\ (\E r \in inflight : r.name \in Kinds) =>
            /\ log # <<>>
            /\ log[1].req.name = "count"
            /\ \A r \in inflight : r.name \in Kinds

\* Both loops of the count-first build have a request in flight, the one of
\* the issues loop for its second page.
C16_Witness ==
  /\ variant = "countFirst"
  /\ Cardinality(inflight) = 2
  /\ \E r \in inflight : r.name = "issues" /\ "cursor" \in DOMAIN r.variables
  /\ \E r \in inflight : r.name = "pullRequests"
  /\ Len(all["issues"]) = PageSize

(***************************************************************************)
(* C17.  Count-first build: the outcome is produced only after both paging *)
(* loops have finished, each by success or by failure; the call never      *)
(* returns while a page request of either kind is in flight, also when the *)
(* other kind's loop has already failed.                                   *)
(***************************************************************************)
C17_WaitsForBothLoops ==
  (variant = "countFirst" /\ outcome.status # "pending") =>
    /\ inflight = {}
    /\ (log # <<>> /\ WellFormed(1)) => \A k \in Kinds : result[k].done

\* The issues loop failed on its first page while the pull-requests loop had
\* a request in flight; the call returned only after a later answer to the
\* pull-requests loop.
C17_Witness ==
  /\ variant = "countFirst"
  /\ Done
  /\ \E i, j \in Answered :
       /\ i < j
       /\ log[i].req.name = "issues" /\ FailedRequest(i)
       /\ log[j].req.name = "pullRequests" /\ ConnOf(j, "pullRequests").count > 0
  /\ outcome.error = result["issues"].error
  /\ outcome.error # NoError

\* The phase of the call: IDLE, FETCHING_COUNTS, FETCHING_PAGES, and SUCCESS
\* or FAILED once the outcome has been returned.
Phase ==
  IF pc = "idle" THEN "IDLE"
  ELSE IF pc = "counting" THEN "FETCHING_COUNTS"
  ELSE IF pc = "paging" THEN "FETCHING_PAGES"
  ELSE IF outcome.error = NoError THEN "SUCCESS" ELSE "FAILED"

\* The phases that may follow a phase in one step.
LaterPhases(p) ==
  IF p = "IDLE" THEN {"IDLE", "FETCHING_COUNTS", "FETCHING_PAGES", "SUCCESS", "FAILED"}
  ELSE IF p = "FETCHING_COUNTS" THEN {"FETCHING_COUNTS", "FETCHING_PAGES", "SUCCESS", "FAILED"}
  ELSE IF p = "FETCHING_PAGES" THEN {"FETCHING_PAGES", "SUCCESS", "FAILED"}
  ELSE {p}

(***************************************************************************)
(* C18.  A fetch call moves only forward through IDLE, FETCHING_COUNTS     *)
(* (count-first build only), FETCHING_PAGES and then exactly one of        *)
(* SUCCESS and FAILED, never back to an earlier phase; SUCCESS and FAILED  *)
(* are terminal: once the outcome has been returned the fetch issues no    *)
(* further request and calls onProgress no more.                           *)
(***************************************************************************)
C18_PhasesOnlyForward ==
  [][ /\ Phase' \in LaterPhases(Phase)
      /\ Phase' = "FETCHING_COUNTS" => variant = "countFirst"
      /\ Phase' \in {"SUCCESS", "FAILED"} <=> outcome'.status = "returned"
      /\ Phase' \in {"SUCCESS", "FAILED"} => inflight' = {}
      /\ Phase \in {"SUCCESS", "FAILED"} =>
           /\ outcome' = outcome
           /\ inflight' = inflight
           /\ log' = log
           /\ progress' = progress ]_vars

\* A count-first call has gone through the count and three page requests
\* and returned with success; its outcome is there to stay.
C18_Witness ==
  /\ variant = "countFirst"
  /\ Phase = "SUCCESS"
  /\ Len(log) >= 4
  /\ log[1].req.name = "count"
  /\ inflight = {}

(***************************************************************************)
(* Vocabulary of the aggregator's properties.                              *)
(***************************************************************************)
RECURSIVE TallyOf(_, _, _)
\* The sum of the counts of the first n groups of `list` whose content is in
\* the set S.
TallyOf(list, S, n) ==
  IF n = 0 THEN 0
  ELSE TallyOf(list, S, n - 1) + (IF list[n].content \in S THEN list[n].users.totalCount ELSE 0)

\* The groups of the node the aggregator was called with, none when the node
\* has no list.
GroupsGiven == IF rawNode.reactionGroups.present THEN rawNode.reactionGroups.list ELSE <<>>

\* The call has returned.
Aggregated == summary # NoSummary

(***************************************************************************)
(* C19.  For every raw node, whatever total it reports and whatever its    *)
(* list of reaction groups, the summary computed by calculateReactionCounts *)
(* has positiveCount + negativeCount <= totalCount, with positiveCount and *)
(* negativeCount non-negative.                                             *)
(***************************************************************************)
C19_BucketsWithinTotal ==
  Aggregated =>
    /\ summary.positiveCount >= 0
    /\ summary.negativeCount >= 0
    /\ summary.positiveCount + summary.negativeCount <= summary.totalCount

(***************************************************************************)
(* C20.  calculateReactionCounts returns for every node; its positiveCount *)
(* is the sum of the counts of exactly the groups with content THUMBS_UP,  *)
(* HEART, HOORAY, ROCKET, EYES or LAUGH, its negativeCount the sum of the  *)
(* counts of exactly the groups with content THUMBS_DOWN or CONFUSED, any  *)
(* other content adds to neither, an absent list counts as an empty one,   *)
(* and both results are the same whatever totalCount the node reports      *)
(* (THUMBS_UP 5 and CONFUSED 2 give positive 5, negative 2).               *)
(***************************************************************************)
C20_FixedClassification ==
  /\ ~Aggregated => ENABLED Aggregate
  /\ Aggregated =>
       /\ summary.positiveCount
            = TallyOf(GroupsGiven, {"THUMBS_UP", "HEART", "HOORAY", "ROCKET", "EYES", "LAUGH"},
                      Len(GroupsGiven))
       /\ summary.negativeCount
            = TallyOf(GroupsGiven, {"THUMBS_DOWN", "CONFUSED"}, Len(GroupsGiven))
       /\ ~rawNode.reactionGroups.present
            => summary.positiveCount = 0 /\ summary.negativeCount = 0
       /\ \A t \in ReportedTotals :
            LET other == calculateReactionCounts(ReactionNode(t, rawNode.reactionGroups))
            IN  /\ other.positiveCount = summary.positiveCount
                /\ other.negativeCount = summary.negativeCount
                /\ other.totalCount = t
       /\ GroupsGiven = <<ReactionGroup("THUMBS_UP", 5), ReactionGroup("CONFUSED", 2)>>
            => summary.positiveCount = 5 /\ summary.negativeCount = 2

\* A node reporting no reaction at all, with a LAUGH group of 5 and a group
\* of an unknown kind, was summarised as 5 positive and 0 negative.
C20_Witness ==
  /\ Aggregated
  /\ rawNode.reactions.totalCount = 0
  /\ GroupsGiven = <<ReactionGroup("LAUGH", 5), ReactionGroup("OTHER", 2)>>
  /\ summary.positiveCount = 5
  /\ summary.negativeCount = 0

(***************************************************************************)
(* C21                                                                     *)
(***************************************************************************)
\* The state sets the four query shapes are said to ask for.
StatesOfClaim(f) ==
  IF f = "open" THEN [issueStates |-> {"OPEN"}, prStates |-> {"OPEN"}]
  ELSE IF f = "closed" THEN [issueStates |-> {"CLOSED"}, prStates |-> {"CLOSED", "MERGED"}]
  ELSE [issueStates |-> {"OPEN", "CLOSED"}, prStates |-> {"OPEN", "CLOSED", "MERGED"}]

\* Every request the fetch has posted, answered or not.
Posted == inflight \cup {log[i].req : i \in Answered}

\* C21: for every filter value, recognised or not, every request of a fetch
\* asks for the state sets of the table: the combined and the count query
\* for both kinds, the issues page query for the issue states, the
\* pull-requests page query for the pull-request states; so the count query
\* and the page queries of one fetch ask for the same states.
C21_SameStateSets ==
  \A req \in Posted :
    /\ req.name \in {"combined", "count", "issues"}
         => req.states.issueStates = StatesOfClaim(stateFilter).issueStates
    /\ req.name \in {"combined", "count", "pullRequests"}
         => req.states.prStates = StatesOfClaim(stateFilter).prStates

\* A count-first fetch with a filter value the type does not have has posted
\* its count query and page queries of both kinds.
C21_Witness ==
  /\ Done
  /\ stateFilter \notin LoadStateFilters
  /\ \A n \in {"count", "issues", "pullRequests"} : \E req \in Posted : req.name = n

(***************************************************************************)
(* C22                                                                     *)
(***************************************************************************)
\* How often x occurs in a list.
Occurrences(x, list) == Cardinality({i \in 1..Len(list) : list[i] = x})

\* The numbers of a list's items, in the list's order.
Numbers(list) == [i \in 1..Len(list) |-> list[i].number]

\* The list with every item's total and negative count set to zero.
WithoutOtherCounts(list) ==
  [i \in 1..Len(list) |->
     [list[i] EXCEPT !.reactions.totalCount = 0, !.reactions.negativeCount = 0]]

SlashesOf(s) == {i \in 1..Len(s) : s[i] = "/"}

\* The trimmed input has exactly one slash, with something on both sides of
\* it, and no space anywhere.
ValidByClaim(input) ==
  LET t == Trim(input)
  IN  /\ Cardinality(SlashesOf(t)) = 1
      /\ \A i \in SlashesOf(t) : 1 < i /\ i < Len(t)
      /\ \A i \in 1..Len(t) : t[i] # " "

\* The two segments of such an input.
RefByClaim(input) ==
  LET t == Trim(input)
      i == CHOOSE j \in SlashesOf(t) : TRUE
  IN  RepositoryRef(SubSeq(t, 1, i - 1), SubSeq(t, i + 1, Len(t)))

\* C23: parseRepository returns {owner, name} exactly when the trimmed input
\* splits on '/' into two non-empty segments without a space, and then owner
\* and name are those segments; for every other input it returns null, and
\* handleLoad calls fetchRepositoryData only for an input of the first sort,
\* with those segments.
C23_ParseRepository ==
  /\ parseRepository(view.repoInput) =
       (IF ValidByClaim(view.repoInput) THEN RefByClaim(view.repoInput) ELSE NullRepository)
  /\ ~ValidByClaim(view.repoInput) =>
       /\ loads = <<>>
       /\ \A c \in 1..Len(calls) : calls[c] # "fetchRepositoryData"
  /\ \A i \in 1..Len(loads) : loads[i].repo = RefByClaim(view.repoInput)

\* handleLoad has called fetchRepositoryData for an input with blanks around
\* the owner/name pair.
C23_Witness ==
  /\ loads # <<>>
  /\ view.repoInput # Trim(view.repoInput)
  /\ loads[1].repo = RepositoryRef(<<"o">>, <<"n">>)

(***************************************************************************)
(* C24                                                                     *)
(***************************************************************************)
\* The state a display filter selects, by the claim; "" for none.
StateByClaim(k, f) ==
  IF f = "open" THEN "OPEN"
  ELSE IF f = "closed" THEN "CLOSED"
  ELSE IF f = "merged" /\ k = "pullRequests" THEN "MERGED"
  ELSE ""

\* The positions of the items a display filter keeps, by the claim.
KeptByClaim(k, f) ==
  {i \in 1..Len(items) : f = "all" \/ items[i].state = StateByClaim(k, f)}

\* The items of a list at a set of positions, in the list's order.
RECURSIVE AtPositions(_, _, _)
AtPositions(list, positions, i) ==
  IF i > Len(list) THEN <<>>
  ELSE (IF i \in positions THEN <<list[i]>> ELSE <<>>) \o AtPositions(list, positions, i + 1)

\* C24: for every list and every display filter, filterIssues and
\* filterPullRequests return the input's items, in the input's order, whose
\* state matches the filter: all of them for 'all', the OPEN ones for 'open',
\* the CLOSED ones for 'closed', the MERGED pull requests for 'merged', and
\* no issue for 'merged'.
C24_FiltersSelectByState ==
  \A k \in Kinds :
    (filter \in StateFilters /\ filtered[k].returned)
      => filtered[k].value = AtPositions(items, KeptByClaim(k, filter), 1)

\* 'merged' was applied to a list with a merged item between others, as
\* issues and as pull requests.
C24_Witness ==
  /\ filter = "merged"
  /\ \A k \in Kinds : filtered[k].returned
  /\ Len(items) = 3
  /\ items[2].state = "MERGED"
  /\ items[1].state = "CLOSED"
  /\ filtered["issues"].value = <<>>
  /\ filtered["pullRequests"].value # <<>>

(***************************************************************************)
(* C25                                                                     *)
(***************************************************************************)
\* A token was supplied to the fetch and is not the empty string.
NonEmptyTokenSupplied == token.given /\ token.value # ""

\* C25: every request of a fetch is a POST to the one GraphQL endpoint; it
\* has the header Authorization: Bearer <token> exactly when a non-empty
\* token was supplied to the fetch, with that token on every request; and
\* the token is nowhere else: the other header is the content type, and the
\* body's variables are cursors only.
C25_TokenOnlyInAuthorization ==
  \A req \in Posted :
    /\ req.method = "POST"
    /\ req.url = "https://api.github.com/graphql"
    /\ ("Authorization" \in DOMAIN req.headers) <=> NonEmptyTokenSupplied
    /\ NonEmptyTokenSupplied => req.headers["Authorization"] = "Bearer " \o token.value
    /\ DOMAIN req.headers \subseteq {"Content-Type", "Authorization"}
    /\ req.headers["Content-Type"] = "application/json"
    /\ DOMAIN req.variables \subseteq {"issuesCursor", "prsCursor", "cursor"}

\* A finished fetch with a token has had three or more requests answered.
C25_Witness ==
  /\ Done
  /\ token = Token("ghp_a1")
  /\ Len(log) >= 3
  /\ \A i \in Answered : log[i].req.headers["Authorization"] = "Bearer ghp_a1"

(***************************************************************************)
(* C26                                                                     *)
(***************************************************************************)
\* The first position of a call in a list of calls, 0 when it is not there.
FirstCall(name, list) ==
  IF \E c \in 1..Len(list) : list[c] = name
    THEN CHOOSE c \in 1..Len(list) : list[c] = name /\ \A d \in 1..(c - 1) : list[d] # name
    ELSE 0

\* The i-th load finishes in this step, with an error.
FinishesWithError(i) ==
  /\ loads[i].result = Pending
  /\ Len(loads') = Len(loads)
  /\ loads'[i].result # Pending
  /\ loads'[i].result.error # NoError

\* C26: when a load finishes with an UNAUTHORIZED error, handleLoad empties
\* the token input and removes the stored token, both before it shows the
\* error; when it finishes with an error of another kind, the error handling
\* leaves the stored token (and the token input) as they were.
C26_UnauthorizedClearsToken ==
  [][ \A i \in 1..Len(loads) :
        FinishesWithError(i) =>
          IF loads'[i].result.error.type = "UNAUTHORIZED"
            THEN /\ storage'.token = Absent
                 /\ view'.tokenInput = <<>>
                 /\ view'.errorShown
                 /\ view'.errorMessage = loads'[i].result.error.message
                 /\ 0 < FirstCall("clearToken", calls')
                 /\ 0 < FirstCall("tokenInput.value = ''", calls')
                 /\ FirstCall("clearToken", calls') < FirstCall("showError", calls')
                 /\ FirstCall("tokenInput.value = ''", calls') < FirstCall("showError", calls')
            ELSE /\ storage' = storage
                 /\ view'.tokenInput = view.tokenInput
                 /\ view'.errorShown
    ]_vars

\* A load made with a token has just finished as UNAUTHORIZED: the token that
\* handleLoad had saved is gone and the error is shown.
C26_Witness ==
  /\ Len(loads) = 1
  /\ loads[1].token = Token("t")
  /\ loads[1].result.error.type = "UNAUTHORIZED"
  /\ calls = <<"tokenInput.value = ''", "clearToken", "updateClearTokenButton", "showError">>
  /\ storage.token = Absent
  /\ view.tokenInput = <<>>
  /\ view.errorShown

(***************************************************************************)
(* C27                                                                     *)
(***************************************************************************)
\* The i-th answer is the one a failure-free server gives to its request.
Honest(i) == log[i].resp = Digest(HonestResponse(log[i].req))

\* The server neither failed nor changed while the fetch ran.
FailureFreeAndFixed == drift = 0 /\ \A i \in Answered : Honest(i)

\* The items of kind k the repository holds under the filter, newest first,
\* as the fetch hands them on.
HeldUnderFilter(k) ==
  LET states == IF k = "issues" THEN StatesOfClaim(stateFilter).issueStates
                                ELSE StatesOfClaim(stateFilter).prStates
      newest == Newest(server, k, states)
  IN  [i \in 1..Total(server, k, states) |-> Transform(RawNode(server, k, newest - i + 1))]

\* C27: for every repository and every load-state filter, against a server
\* that does not fail and serves a fixed item set, a fetch of either build
\* returns one and the same outcome: every issue and every pull request the
\* repository holds under the filter, newest first, and no error.
C27_VariantsAgree ==
  (Done /\ FailureFreeAndFixed) =>
    outcome = FetchResult("returned", HeldUnderFilter("issues"),
                          HeldUnderFilter("pullRequests"), NoError)

\* A count-first fetch has returned more than one page of each kind from
\* such a server.
C27_Witness ==
  /\ Done
  /\ FailureFreeAndFixed
  /\ variant = "countFirst"
  /\ Len(outcome.issues) > PageSize
  /\ Len(outcome.pullRequests) > PageSize

(***************************************************************************)
(* C28                                                                     *)
(***************************************************************************)
\* The count the loop of kind k was started with: the count answer's
\* totalCount (0 when it has none), and 0 when no loop was started.
CountOf(k) ==
  IF Len(log) >= 1 /\ log[1].req.name = "count" /\ HasRepository(1)
       /\ ConnOf(1, "issues").present /\ ConnOf(1, "pullRequests").present
    THEN OrZero(ConnOf(1, k).totalCount)
    ELSE 0

\* C28: in the count-first build, whatever the server answers (a next-page
\* flag on every page included), the loop of a kind whose count was t posts
\* at most ceil(t / 100) page requests, the fetch posts at most
\* 1 + ceil(tIssues / 100) + ceil(tPRs / 100) requests, and it is never
\* left waiting for nothing: it has returned, or a request is in flight.
C28_RequestsBounded ==
  variant = "countFirst" =>
    /\ \A k \in Kinds : PageRequestsOf(k) <= CeilOfClaim(CountOf(k))
    /\ Len(log) + Cardinality(inflight)
         <= 1 + CeilOfClaim(CountOf("issues")) + CeilOfClaim(CountOf("pullRequests"))
    /\ pc \in {"counting", "paging"} => inflight # {}
    /\ Done => inflight = {}

\* A loop has returned after two or more pages that all, the last one
\* included, were flagged as having a next page.
C28_Witness ==
  /\ variant = "countFirst"
  /\ Done
  /\ \E k \in Kinds :
       /\ PageRequestsOf(k) = CeilOfClaim(CountOf(k))
       /\ PageRequestsOf(k) >= 2
       /\ \A i \in Answered :
            log[i].req.name = k
              => HasRepository(i) /\ ConnOf(i, k).present
                 /\ ConnOf(i, k).count > 0 /\ ConnOf(i, k).pageInfo.hasNextPage

(***************************************************************************)
(* C29                                                                     *)
(***************************************************************************)
\* The i-th answer was readable and carried an empty page of kind k while
\* the client was reading that kind.
EmptyPageAt(i, k) ==
  /\ i \in PagesOf(k)
  /\ WellFormed(i)
  /\ ConnOf(i, k).count = 0

\* The number of items on the pages of kind k among the first n answers.
RECURSIVE ItemsUpTo(_, _)
ItemsUpTo(k, n) ==
  IF n = 0 THEN 0
  ELSE ItemsUpTo(k, n - 1)
       + (IF n \in PagesOf(k) /\ ConnOf(n, k).present THEN ConnOf(n, k).count ELSE 0)

\* Every page of kind k among the first n answers named its last item.
CursorsKept(k, n) ==
  \A j \in PagesOf(k) :
    (j <= n /\ ConnOf(j, k).count > 0) => ConnOf(j, k).pageInfo.endCursor # Null

\* C29: in both builds an empty page of a kind, whatever its next-page flag,
\* ends the paging of that kind without an error: no further page of the
\* kind is asked for, the accumulator keeps exactly the items of the earlier
\* pages, the count-first loop returns them without an error, and a fetch
\* whose answers were all readable returns them in its outcome.
C29_EmptyPageCompletes ==
  \A k \in Kinds : \A i \in Answered :
    EmptyPageAt(i, k) =>
      /\ Len(all[k]) = ItemsUpTo(k, i - 1)
      /\ CursorsKept(k, i - 1) => all[k] = IngestedUpTo(k, i - 1)
      /\ \A req \in inflight :
           /\ req.name # k
           /\ req.name = "combined" => CursorVariable(req, k) \notin DOMAIN req.variables
      /\ \A j \in Answered : j > i => log[j].req.name # k
      /\ variant = "countFirst" => result[k] = LoopResult(TRUE, all[k], NoError)
      /\ variant = "interleaved" => ~hasMore[k]
      /\ (Done /\ \A j \in Answered : WellFormed(j))
           => /\ outcome.error = NoError
              /\ (IF k = "issues" THEN outcome.issues ELSE outcome.pullRequests) = all[k]

\* A count-first fetch returned the first page of a kind after the second
\* page came back empty and flagged as having a next page.
C29_Witness ==
  /\ variant = "countFirst"
  /\ Succeeded
  /\ \E k \in Kinds : \E i \in Answered :
       /\ EmptyPageAt(i, k)
       /\ ConnOf(i, k).pageInfo.hasNextPage
       /\ ItemsUpTo(k, i - 1) = PageSize
       /\ Len(IF k = "issues" THEN outcome.issues ELSE outcome.pullRequests) = PageSize

(***************************************************************************)
(* C30                                                                     *)
(***************************************************************************)
\* The i-th answer was readable and its page of kind k finished the stream.
Exhausts(i, k) == WellFormed(i) /\ LastPageOf(i, k)

\* The answer that finished stream k: the first readable one whose page of
\* kind k was empty or reported no next page (0 while the stream is open).
ExhaustedAt(k) ==
  IF \E j \in Answered : Exhausts(j, k)
    THEN CHOOSE j \in Answered :
           Exhausts(j, k) /\ \A h \in Answered : Exhausts(h, k) => j <= h
    ELSE 0

\* No two items of the list carry the same number.
DistinctNumbers(list) ==
  \A a, b \in 1..Len(list) : a # b => list[a].number # list[b].number

\* C30: in the interleaved build, once an answer has finished a stream,
\* every later combined request (answered or in flight) is sent without that
\* stream's cursor variable, the stream's accumulator stays what it was when
\* the stream finished although later answers carry nodes for it, and a
\* successful outcome lists no item of the stream twice.
C30_ExhaustedStreamLeftAlone ==
  variant = "interleaved" =>
    \A k \in Kinds :
      /\ \A i \in Answered :
           ExhaustedBefore(i, k) => CursorVariable(log[i].req, k) \notin DOMAIN log[i].req.variables
      /\ ExhaustedAt(k) # 0 =>
           /\ \A req \in inflight : CursorVariable(req, k) \notin DOMAIN req.variables
           /\ Len(all[k]) = ItemsUpTo(k, ExhaustedAt(k))
           /\ all[k] = IngestedUpTo(k, ExhaustedAt(k))
      /\ Succeeded =>
           DistinctNumbers(IF k = "issues" THEN outcome.issues ELSE outcome.pullRequests)

\* An interleaved fetch succeeded after a combined request that left out the
\* cursor of a finished stream was answered with nodes for that stream, and
\* its outcome holds the stream's items.
C30_Witness ==
  /\ variant = "interleaved"
  /\ Succeeded
  /\ \E k \in Kinds : \E i \in Answered :
       /\ ExhaustedBefore(i, k)
       /\ CursorVariable(log[i].req, k) \notin DOMAIN log[i].req.variables
       /\ ConnOf(i, k).present
       /\ ConnOf(i, k).count > 0
       /\ Len(IF k = "issues" THEN outcome.issues ELSE outcome.pullRequests) > 0

(***************************************************************************)
(* C31                                                                     *)
(***************************************************************************)
\* The i-th request failed by transport or was answered with an errors array.
FailedCall(i) == TransportFailure(i) \/ GraphQLFailure(i)

\* The loop a page request belongs to: the loop of its kind in the
\* count-first build, the one loop of combined requests in the interleaved.
LoopNames == Kinds \cup {"combined"}

\* C31: nothing is sent again.  Once a page request of a loop has failed, no
\* later request of that loop is answered or in flight; once the count
\* request has failed it stays the only request of the fetch; and no two
\* requests of one kind (count, issues page, pull-requests page, combined)
\* of a fetch carry the same cursor variables.
C31_NoRetry ==
  /\ \A i \in Answered :
       (FailedCall(i) /\ log[i].req.name \in LoopNames) =>
         /\ \A j \in Answered : j > i => log[j].req.name # log[i].req.name
         /\ \A req \in inflight : req.name # log[i].req.name
  /\ \A i \in Answered :
       (FailedCall(i) /\ log[i].req.name = "count") =>
         /\ Len(log) = 1
         /\ inflight = {}
  /\ \A i, j \in Answered :
       (i < j /\ log[i].req.name = log[j].req.name) =>
         log[i].req.variables # log[j].req.variables
  /\ \A i \in Answered : \A req \in inflight :
       log[i].req.name = req.name => log[i].req.variables # req.variables

\* A count-first fetch ended after a page request of one loop had failed and
\* the other loop went on to a further page, while the failed loop sent
\* nothing more.
C31_Witness ==
  /\ variant = "countFirst"
  /\ Done
  /\ \E i, j \in Answered :
       /\ i < j
       /\ FailedCall(i)
       /\ log[i].req.name = "issues"
       /\ log[j].req.name = "pullRequests"
       /\ CursorVariable(log[j].req, "pullRequests") \in DOMAIN log[j].req.variables

(***************************************************************************)
(* C32                                                                     *)
(***************************************************************************)
\* The list of kind k in what the fetch returned.
ListOf(k) == IF k = "issues" THEN outcome.issues ELSE outcome.pullRequests

\* C32: an exception of the progress callback does not change what the fetch
\* returns.  A fetch whose every answer was readable returns, with a
\* callback that never throws, the pages it ingested and no error; it
\* returns the same when an invocation of the callback throws.
C32_CallbackCannotFail ==
  (Done /\ \A i \in Answered : WellFormed(i)) =>
    /\ outcome.status = "returned"
    /\ outcome.error = NoError
    /\ \A k \in Kinds : ListOf(k) = IngestedUpTo(k, Len(log))

(***************************************************************************)
(* C33                                                                     *)
(***************************************************************************)
\* Both count-first loops have returned.
BothLoopsReturned ==
  variant = "countFirst" /\ Done /\ result["issues"].done /\ result["pullRequests"].done

\* The loop of kind k returned an error.
LoopFailed(k) == result[k].done /\ result[k].error # NoError

\* C33: in the count-first build, once both loops have returned, the error
\* of the outcome is the issues loop's error whenever that loop failed, in
\* whatever order the two loops failed, and it is the pull-requests loop's
\* error only when the issues loop returned without one.
C33_IssuesErrorFirst ==
  BothLoopsReturned =>
    /\ LoopFailed("issues") => outcome.error = result["issues"].error
    /\ (LoopFailed("pullRequests") /\ ~LoopFailed("issues"))
         => outcome.error = result["pullRequests"].error
    /\ (~LoopFailed("pullRequests") /\ ~LoopFailed("issues")) => outcome.error = NoError

\* Both loops failed with errors of different kinds, the pull-requests loop
\* first, and the outcome carries the error of the issues loop.
C33_Witness ==
  /\ BothLoopsReturned
  /\ LoopFailed("issues")
  /\ LoopFailed("pullRequests")
  /\ result["issues"].error.type # result["pullRequests"].error.type
  /\ \E i, j \in Answered :
       /\ j < i
       /\ log[j].req.name = "pullRequests" /\ FailedCall(j)
       /\ log[i].req.name = "issues" /\ FailedCall(i)
  /\ outcome.error = result["issues"].error

(***************************************************************************)
(* C34                                                                     *)
(***************************************************************************)
\* The loads whose call of fetchRepositoryData has not returned.
PendingLoads == {i \in 1..Len(loads) : loads[i].result = Pending}

\* C34: at most one load is in progress at any time: no click on the load
\* button and no Enter key starts a call of fetchRepositoryData while an
\* earlier call is awaited.
C34_OneLoadAtATime == Cardinality(PendingLoads) <= 1

(***************************************************************************)
(* C35                                                                     *)
(***************************************************************************)
\* The loads that returned without an error.
SuccessfulLoads ==
  {i \in 1..Len(loads) : loads[i].result # Pending /\ loads[i].result.error = NoError}

\* C35: once every load that was started has finished, the lists and the
\* load-state filter of the application state are those of the successful
\* load that was started last, whatever the order in which the loads returned.
C35_LatestLoadWins ==
  (PendingLoads = {} /\ SuccessfulLoads # {}) =>
    LET latest == loads[Last(SuccessfulLoads)]
    IN  /\ state.issues = latest.result.issues
        /\ state.pullRequests = latest.result.pullRequests
        /\ state.loadStateFilter = latest.loadStateFilter

(***************************************************************************)
(* C36                                                                     *)
(***************************************************************************)
\* C36: during a load with the count-first build, in whatever order the
\* pages of the two kinds come in, neither count of the pair shown by the
\* progress callback of handleLoad ever decreases, the pair shown is always
\* the numbers of issues and of pull requests fetched so far, and after the
\* last invocation of a successful fetch it is the lengths of the two lists
\* returned.
C36_DisplayedProgress ==
  variant = "countFirst" =>
    /\ \A n \in 1..Len(progress) :
         /\ DisplayedAfter(n - 1)[1] <= DisplayedAfter(n)[1]
         /\ DisplayedAfter(n - 1)[2] <= DisplayedAfter(n)[2]
    /\ DisplayedAfter(Len(progress)) = <<Len(all["issues"]), Len(all["pullRequests"])>>
    /\ Succeeded =>
         DisplayedAfter(Len(progress)) = <<Len(outcome.issues), Len(outcome.pullRequests)>>

\* A successful count-first fetch reported an issues page, then a
\* pull-requests page, then another issues page, and the pair shown at the
\* end counts more than a page of each kind.
C36_Witness ==
  /\ variant = "countFirst"
  /\ Succeeded
  /\ \E a, b, c \in 1..Len(progress) :
       /\ a < b /\ b < c
       /\ progress[a][1] > 0 /\ progress[b][2] > 0 /\ progress[c][1] > 0
  /\ DisplayedAfter(Len(progress))[1] > PageSize
  /\ DisplayedAfter(Len(progress))[2] > PageSize

(***************************************************************************)
(* C37                                                                     *)
(***************************************************************************)
\* The i-th load finishes in this step, without an error.
FinishesWithSuccess(i) ==
  /\ loads[i].result = Pending
  /\ Len(loads') = Len(loads)
  /\ loads'[i].result # Pending
  /\ loads'[i].result.error = NoError

\* This step is a run of handleLoad up to its await or to the return that
\* follows an invalid repository input.
HandleLoadRuns ==
  \/ Len(loads') = Len(loads) + 1
  \/ /\ loads' = loads
     /\ calls' \in {<<"showError">>, <<"parseRepository", "showError">>}

\* This step leaves the lists, the load-state filter, the tab and the
\* display filter of the application state as they are.
KeepsLoaded ==
  /\ state'.issues = state.issues
  /\ state'.pullRequests = state.pullRequests
  /\ state'.loadStateFilter = state.loadStateFilter
  /\ state'.activeTab = state.activeTab
  /\ state'.stateFilter = state.stateFilter

\* C37: no step of a load that ends with an error, and no run of handleLoad
\* on an invalid repository input, changes the lists, the load-state filter,
\* the tab or the display filter of the application state (nor does the
\* start of any load); the lists and the load-state filter change only when
\* a load returns without an error, and such a load puts its lists and its
\* filter into the state and resets the tab to 'issues' and the display
\* filter to 'all'.
C37_FailedLoadKeepsState ==
  [][ /\ HandleLoadRuns => KeepsLoaded
      /\ \A i \in 1..Len(loads) : FinishesWithError(i) => KeepsLoaded
      /\ \A i \in 1..Len(loads) :
           FinishesWithSuccess(i) =>
             /\ state'.issues = loads'[i].result.issues
             /\ state'.pullRequests = loads'[i].result.pullRequests
             /\ state'.loadStateFilter = loads[i].loadStateFilter
             /\ state'.activeTab = "issues"
             /\ state'.stateFilter = "all"
      /\ ( \/ state'.issues # state.issues
           \/ state'.pullRequests # state.pullRequests
           \/ state'.loadStateFilter # state.loadStateFilter )
           => \E i \in 1..Len(loads) : FinishesWithSuccess(i)
    ]_vars

\* After a successful load the user went to the pull-requests tab and chose
\* the filter 'merged'; a second load has just failed, and the state still
\* holds the lists and the filter of the first load, the tab and the display
\* filter the user chose.
C37_Witness ==
  /\ Len(loads) = 2
  /\ PendingLoads = {}
  /\ SuccessfulLoads = {1}
  /\ calls = <<"showError">>
  /\ view.errorShown
  /\ state.issues = loads[1].result.issues
  /\ state.issues # <<>>
  /\ state.loadStateFilter = loads[1].loadStateFilter
  /\ state.activeTab = "pullRequests"
  /\ state.stateFilter = "merged"

(***************************************************************************)
(* C38                                                                     *)
(***************************************************************************)
\* The display filter asks for items the load left out.
Incompatible(displayFilter, loadStateFilter) ==
  \/ loadStateFilter = "open" /\ displayFilter \in {"closed", "merged"}
  \/ loadStateFilter = "closed" /\ displayFilter = "open"

\* C38: from the first successful load on, whatever filter buttons and tabs
\* are clicked and whatever loads follow, the display filter of the state is
\* never 'closed' or 'merged' while the loaded filter is 'open', and never
\* 'open' while the loaded filter is 'closed'.
C38_DisplayFilterCompatible ==
  SuccessfulLoads # {} => ~Incompatible(state.stateFilter, state.loadStateFilter)

\* After a successful load of the open items the click on the disabled
\* button 'closed' was ignored and the click on 'open' taken; a second load,
\* of the closed items, is pending.
C38_Witness ==
  /\ SuccessfulLoads = {1}
  /\ loads[1].loadStateFilter = "open"
  /\ state.loadStateFilter = "open"
  /\ state.stateFilter = "open"
  /\ view.disabledFilters = {"closed", "merged"}
  /\ Len(loads) = 2
  /\ loads[2].loadStateFilter = "closed"
  /\ loads[2].result = Pending

====
